---------------------------- MODULE Spec2Model ----------------------------
(***************************************************************************)
(* Realtime mock-interview coach (App.tsx): the session controller, the    *)
(* playback scheduler, the transcript assembler, the frame sampler and the *)
(* feedback synthesizer, as one state machine.                             *)
(*                                                                         *)
(* Every handler of the component runs to completion on the event loop, so *)
(* a handler is one action.  A handler that awaits is cut at the await:    *)
(* startSession at getUserMedia and at ai.live.connect, handleMessage at   *)
(* decodeAudioData, generateFeedback at generateContent.                   *)
(*                                                                         *)
(* Handlers are written as operators from a program-state record to a      *)
(* program-state record, because they call one another (stopSession calls  *)
(* cleanup and generateFeedback; onerror and onclose call stopSession).    *)
(*                                                                         *)
(* Text is a sequence of one-character strings.  Audio time is counted in  *)
(* half seconds, wall-clock time in milliseconds.                          *)
(***************************************************************************)
EXTENDS Integers, Sequences, FiniteSets, TLC

(***************************************************************************)
(* Bounds of the exploration                                               *)
(***************************************************************************)
MaxSessions == 2
MaxTranscript == 2
MaxText == 2
MaxChunks == 2
MaxDecoding == 1
MaxClock == 5
MaxDate == 60000

(***************************************************************************)
(* Program constants                                                       *)
(***************************************************************************)
FRAME_CAPTURE_INTERVAL == 5000
MAX_FRAMES_FOR_FEEDBACK == 12

(* Date.now() at page load: any value >= the capture interval *)
Epoch == 5000
DateStep == 5000

NULL == 0
(* null of a string-valued state: error, endFeedback *)
None == "null"
Attempts == 1..MaxSessions

(***************************************************************************)
(* Input domains                                                           *)
(***************************************************************************)
Durations == {3, 4}
PartialTexts == {<<"h">>, <<" ">>}
ApiKeys == {<<>>, <<" ">>, <<"k">>}
FormTexts == {"", "text"}
Frames == {"f1", "f2"}
MicErrors == {"NotAllowedError", "NotFoundError"}
(* an error message, as the set of the texts the catch block looks for that *)
(* it contains; 'API key not valid' contains 'API key'                      *)
Markers == {"API_KEY_INVALID", "API key not valid", "invalid api key", "401",
            "403", "PERMISSION_DENIED", "UNAUTHENTICATED", "quota",
            "RESOURCE_EXHAUSTED", "not found", "NOT_FOUND", "API key"}
MaxMarkers == 2
ErrorMessages ==
  { m \in SUBSET Markers :
      /\ Cardinality(m) <= MaxMarkers
      /\ "API key not valid" \in m => "API key" \in m }
(* messages of the errors getUserMedia rejects with, and of those           *)
(* ai.live.connect rejects with                                             *)
MicMessages == {{}, {"not found"}}
ConnectErrors == ErrorMessages
includes(message, x) == x \in message
NoError == [name |-> "", message |-> {}]
(* what a failed sendRealtimeInput can throw: a message that contains      *)
(* 'CLOS' and 'not open', one that contains only 'CLOS', one that contains *)
(* only 'not open', one that contains neither                              *)
SendErrors == {"not open: CLOSED", "CLOSING", "not open", "other"}
SendOutcomes == {"ok"} \cup SendErrors

includesCLOS(msg) == msg \in {"not open: CLOSED", "CLOSING"}
includesNotOpen(msg) == msg \in {"not open: CLOSED", "not open"}

NoMsg == [audio |-> 0, interrupted |-> FALSE, input |-> <<>>, output |-> <<>>,
          turnComplete |-> FALSE]

(***************************************************************************)
(* Pure helpers                                                            *)
(***************************************************************************)
Max(a, b) == IF a >= b THEN a ELSE b

RECURSIVE trimStart(_)
trimStart(t) ==
  IF t # <<>> /\ Head(t) = " " THEN trimStart(Tail(t)) ELSE t

RECURSIVE trimEnd(_)
trimEnd(t) ==
  IF t # <<>> /\ t[Len(t)] = " " THEN trimEnd(SubSeq(t, 1, Len(t) - 1)) ELSE t

trim(t) == trimEnd(trimStart(t))

RemoveAt(q, i) == SubSeq(q, 1, i - 1) \o SubSeq(q, i + 1, Len(q))

(***************************************************************************)
(* State                                                                   *)
(***************************************************************************)
VARIABLES
  variant,                 \* "current": App with the setup form; "earlier": App with the header start button
  showSetupForm, apiKey, jobDescription, resumeContent,
  isActive, isConnecting, isSpeaking, transcriptions, error, realtimeText,
  endFeedback, isGeneratingFeedback,
  outputAudioContextRef, nextStartTimeRef, sourcesRef, sessionRef, streamRef,
  scriptProcessorRef, mediaSourceRef, transcriptionBufferRef,
  isSessionOpenRef, pendingTextRef, rafRef, rafPending, capturedFramesRef,
  lastFrameCaptureTimeRef, interviewContextRef,
  pc,                      \* per attempt: where its startSession call stands
  sock,                    \* per attempt: state of the connection it opened
  closureT,                \* per attempt: the transcriptions its stopSession closure captured
  startedWith,             \* per attempt: jobDescription, resumeContent and apiKey of the render whose startSession ran
  feedbackCalls,           \* generateFeedback calls awaiting generateContent, each with the number of the session that made it
  decoding,                \* handleMessage calls awaiting decodeAudioData
  schedule,                \* sources started since the cursor was last reset
  endedPending,            \* stopped sources whose onended has not fired yet
  currentTime,             \* outputAudioContext.currentTime
  dateNow,                 \* Date.now() - page load
  nAttempts,
  caught,                  \* the error the catch block of startSession caught in the last handler
  preview,                 \* the VideoPreview component: its state, its refs, its camera and its capture timers
  arrived,                 \* per role: the partial texts received since the last turn-complete, in arrival order
  completed,               \* per role: what had arrived for the turn that the last handler completed
  lastOp, effects          \* the handler that ran last and what it did, in order

progVars ==
  <<showSetupForm, apiKey, jobDescription, resumeContent, isActive,
    isConnecting, isSpeaking, transcriptions,
    error, realtimeText, endFeedback, isGeneratingFeedback,
    outputAudioContextRef, nextStartTimeRef, sourcesRef, sessionRef, streamRef,
    scriptProcessorRef, mediaSourceRef, transcriptionBufferRef,
    isSessionOpenRef, pendingTextRef, rafRef, rafPending, capturedFramesRef,
    lastFrameCaptureTimeRef, interviewContextRef, sock, feedbackCalls,
    schedule, endedPending, effects>>

envVars == <<variant, pc, closureT, startedWith, decoding, currentTime, dateNow, nAttempts,
             caught, arrived, completed, lastOp>>

vars == <<progVars, envVars, preview>>

(* the program state as one record, the argument of every handler *)
S ==
  [showSetupForm |-> showSetupForm, apiKey |-> apiKey,
   jobDescription |-> jobDescription, resumeContent |-> resumeContent,
   isActive |-> isActive,
   isConnecting |-> isConnecting, isSpeaking |-> isSpeaking,
   transcriptions |-> transcriptions, error |-> error,
   realtimeText |-> realtimeText, endFeedback |-> endFeedback,
   isGeneratingFeedback |-> isGeneratingFeedback,
   outputAudioContextRef |-> outputAudioContextRef,
   nextStartTimeRef |-> nextStartTimeRef, sourcesRef |-> sourcesRef,
   sessionRef |-> sessionRef, streamRef |-> streamRef,
   scriptProcessorRef |-> scriptProcessorRef,
   mediaSourceRef |-> mediaSourceRef,
   transcriptionBufferRef |-> transcriptionBufferRef,
   isSessionOpenRef |-> isSessionOpenRef, pendingTextRef |-> pendingTextRef,
   rafRef |-> rafRef, rafPending |-> rafPending,
   capturedFramesRef |-> capturedFramesRef,
   lastFrameCaptureTimeRef |-> lastFrameCaptureTimeRef,
   interviewContextRef |-> interviewContextRef, sock |-> sock,
   feedbackCalls |-> feedbackCalls, schedule |-> schedule,
   endedPending |-> endedPending, effects |-> <<>>]

Commit(s) ==
  /\ showSetupForm' = s.showSetupForm
  /\ apiKey' = s.apiKey
  /\ jobDescription' = s.jobDescription
  /\ resumeContent' = s.resumeContent
  /\ isActive' = s.isActive
  /\ isConnecting' = s.isConnecting
  /\ isSpeaking' = s.isSpeaking
  /\ transcriptions' = s.transcriptions
  /\ error' = s.error
  /\ realtimeText' = s.realtimeText
  /\ endFeedback' = s.endFeedback
  /\ isGeneratingFeedback' = s.isGeneratingFeedback
  /\ outputAudioContextRef' = s.outputAudioContextRef
  /\ nextStartTimeRef' = s.nextStartTimeRef
  /\ sourcesRef' = s.sourcesRef
  /\ sessionRef' = s.sessionRef
  /\ streamRef' = s.streamRef
  /\ scriptProcessorRef' = s.scriptProcessorRef
  /\ mediaSourceRef' = s.mediaSourceRef
  /\ transcriptionBufferRef' = s.transcriptionBufferRef
  /\ isSessionOpenRef' = s.isSessionOpenRef
  /\ pendingTextRef' = s.pendingTextRef
  /\ rafRef' = s.rafRef
  /\ rafPending' = s.rafPending
  /\ capturedFramesRef' = s.capturedFramesRef
  /\ lastFrameCaptureTimeRef' = s.lastFrameCaptureTimeRef
  /\ interviewContextRef' = s.interviewContextRef
  /\ sock' = s.sock
  /\ feedbackCalls' = s.feedbackCalls
  /\ schedule' = s.schedule
  /\ endedPending' = s.endedPending
  /\ effects' = s.effects

Did(s, e) == [s EXCEPT !.effects = Append(@, e)]

EmptyText == [user |-> <<>>, model |-> <<>>]


(***************************************************************************)
(* Faulty variants of cleanup, against which the properties of teardown    *)
(* are tested: one that disconnects the script processor without looking   *)
(* whether there is one, one that clears the open flag last                *)
(***************************************************************************)
cleanupUnguarded(s) ==
  LET s1 == [Did(s, "isSessionOpen:=false") EXCEPT !.isSessionOpenRef = FALSE]
      s2 == [Did(s1, "scriptProcessor.disconnect")
               EXCEPT !.scriptProcessorRef = NULL]
      s3 == IF s2.mediaSourceRef # NULL
              THEN [Did(s2, "mediaSource.disconnect")
                      EXCEPT !.mediaSourceRef = NULL]
              ELSE s2
      s4 == IF s3.streamRef # NULL
              THEN [Did(s3, "track.stop") EXCEPT !.streamRef = NULL]
              ELSE s3
      s5 == IF s4.sourcesRef # {}
              THEN [Did(s4, "source.stop")
                      EXCEPT !.endedPending =
                               IF @ + Cardinality(s4.sourcesRef) > MaxChunks
                                 THEN MaxChunks
                                 ELSE @ + Cardinality(s4.sourcesRef)]
              ELSE s4
      s6 == [Did(s5, "sources.clear") EXCEPT !.sourcesRef = {},
                                             !.schedule = <<>>]
  IN  [Did(s6, "nextStartTime:=0") EXCEPT !.nextStartTimeRef = 0]

cleanupFlagLast(s) ==
  LET s2 == IF s.scriptProcessorRef # NULL
              THEN [Did(s, "scriptProcessor.disconnect")
                      EXCEPT !.scriptProcessorRef = NULL]
              ELSE s
      s3 == IF s2.mediaSourceRef # NULL
              THEN [Did(s2, "mediaSource.disconnect")
                      EXCEPT !.mediaSourceRef = NULL]
              ELSE s2
      s4 == IF s3.streamRef # NULL
              THEN [Did(s3, "track.stop") EXCEPT !.streamRef = NULL]
              ELSE s3
      s5 == IF s4.sourcesRef # {}
              THEN [Did(s4, "source.stop")
                      EXCEPT !.endedPending =
                               IF @ + Cardinality(s4.sourcesRef) > MaxChunks
                                 THEN MaxChunks
                                 ELSE @ + Cardinality(s4.sourcesRef)]
              ELSE s4
      s6 == [Did(s5, "sources.clear") EXCEPT !.sourcesRef = {},
                                             !.schedule = <<>>]
      s7 == [Did(s6, "nextStartTime:=0") EXCEPT !.nextStartTimeRef = 0]
  IN  [Did(s7, "isSessionOpen:=false") EXCEPT !.isSessionOpenRef = FALSE]

(***************************************************************************)
(* cleanup (App.tsx 255-286)                                               *)
(***************************************************************************)
cleanup(s) ==
  LET s1 == [Did(s, "isSessionOpen:=false") EXCEPT !.isSessionOpenRef = FALSE]
      s2 == IF s1.scriptProcessorRef # NULL
              THEN [Did(s1, "scriptProcessor.disconnect")
                      EXCEPT !.scriptProcessorRef = NULL]
              ELSE s1
      s3 == IF s2.mediaSourceRef # NULL
              THEN [Did(s2, "mediaSource.disconnect")
                      EXCEPT !.mediaSourceRef = NULL]
              ELSE s2
      s4 == IF s3.streamRef # NULL
              THEN [Did(s3, "track.stop") EXCEPT !.streamRef = NULL]
              ELSE s3
      s5 == IF s4.sourcesRef # {}
              THEN [Did(s4, "source.stop")
                      EXCEPT !.endedPending =
                               IF @ + Cardinality(s4.sourcesRef) > MaxChunks
                                 THEN MaxChunks
                                 ELSE @ + Cardinality(s4.sourcesRef)]
              ELSE s4
      s6 == [Did(s5, "sources.clear") EXCEPT !.sourcesRef = {},
                                             !.schedule = <<>>]
  IN  [Did(s6, "nextStartTime:=0") EXCEPT !.nextStartTimeRef = 0]

(***************************************************************************)
(* generateFeedback up to its await of generateContent (App.tsx 289-324)   *)
(***************************************************************************)
feedbackKey(s, key) ==
  IF variant = "earlier" THEN s.apiKey
  ELSE IF key # <<>> THEN key ELSE s.interviewContextRef.apiKey

(* 297-299: one line per entry, the role replaced by the speaker's label *)
formattedTranscript(transcript) ==
  [i \in 1..Len(transcript) |->
     [speaker |-> IF transcript[i].role = "user" THEN "Candidate"
                  ELSE "Interviewer",
      text |-> transcript[i].text]]

(* a part of the request: a string of contentParts (kind "text") or an     *)
(* inlineData object; head tells the strings apart                         *)
TextPart(head, jd, resume, lines, n) ==
  [kind |-> "text", mimeType |-> "", data |-> "", head |-> head,
   jd |-> jd, resume |-> resume, lines |-> lines, n |-> n]

ImagePart(frame) ==
  [kind |-> "inlineData", mimeType |-> "image/jpeg", data |-> frame,
   head |-> "", jd |-> "", resume |-> "", lines |-> <<>>, n |-> 0]

(* 311-316: the forEach over videoFrames, from the frame at place index *)
RECURSIVE frameParts(_, _)
frameParts(videoFrames, index) ==
  IF index > Len(videoFrames) THEN <<>>
  ELSE <<ImagePart(videoFrames[index])>>
       \o (IF index < Len(videoFrames)
             THEN <<TextPart("[Frame]", "", "", <<>>, index)>>
             ELSE <<>>)
       \o frameParts(videoFrames, index + 1)

(* a faulty request, which never attaches the frames *)
contentPartsWithoutFrames(transcript, videoFrames, jd, resume) ==
  << TextPart("prompt", jd, resume, formattedTranscript(transcript),
              Len(videoFrames)),
     TextPart("[No video frames]", "", "", <<>>, 0) >>

(* 304-319: contentParts *)
contentParts(transcript, videoFrames, jd, resume) ==
  << TextPart("prompt", jd, resume, formattedTranscript(transcript),
              Len(videoFrames)) >>
  \o (IF Len(videoFrames) > 0
        THEN frameParts(videoFrames, 1)
        ELSE << TextPart("[No video frames]", "", "", <<>>, 0) >>)

generateFeedback(s, transcript, videoFrames, jd, resume, key) ==
  LET s0 == Did(s, "generateFeedback")
      feedbackApiKey == feedbackKey(s, key)
  IN  IF feedbackApiKey = <<>> \/ transcript = <<>>
        THEN s0
        ELSE [Did(s0, "generateContent")
                EXCEPT !.isGeneratingFeedback = TRUE,
                       !.feedbackCalls =
                          Append(@, [transcript |-> transcript,
                                     frames |-> videoFrames,
                                     jd |-> jd, resume |-> resume,
                                     key |-> feedbackApiKey,
                                     contents |->
                                       contentParts(transcript, videoFrames,
                                                    jd, resume),
                                     session |-> nAttempts])]

(* a faulty continuation, which lets a rejection through: the error of the *)
(* call becomes the session error and the flag stays raised                *)
feedbackSettledUncaught(s, i, outcome) ==
  IF outcome \in {"text", "empty"}
    THEN [s EXCEPT !.endFeedback =
                      IF outcome = "text" THEN "feedback"
                      ELSE "Unable to generate feedback",
                   !.isGeneratingFeedback = FALSE,
                   !.feedbackCalls = RemoveAt(@, i)]
    ELSE [Did(s, "catch") EXCEPT !.error = "feedback",
                                 !.feedbackCalls = RemoveAt(@, i)]

(* generateFeedback after the await (App.tsx 326-333): the response has    *)
(* text, has none, or the call rejected and the catch block runs           *)
feedbackSettled(s, i, outcome) ==
  LET s1 == IF outcome \in {"text", "empty"} THEN s ELSE Did(s, "catch")
  IN  [s1 EXCEPT !.endFeedback =
                    CASE outcome = "text" -> "feedback"
                      [] outcome = "empty" -> "Unable to generate feedback"
                      [] OTHER -> "Failed to generate feedback",
                 !.isGeneratingFeedback = FALSE,
                 !.feedbackCalls = RemoveAt(@, i)]

(***************************************************************************)
(* stopSession (App.tsx 336-367).  T is the transcriptions value of the    *)
(* render whose stopSession is called: the current one for the End Session *)
(* button, the one of the render that ran startSession for the onerror and *)
(* onclose callbacks, which were created by that startSession call.  JD is *)
(* the jobDescription of the same render, which the earlier stopSession    *)
(* reads (1380); the current one reads interviewContextRef instead (342).  *)
(***************************************************************************)
closeSocket(st) == IF st = "open" THEN "closing" ELSE st

(* a faulty stopSession, which empties the frame buffer before it copies it *)
stopSessionClearsFirst(s, T, JD) ==
  LET jd == IF variant = "earlier" THEN JD ELSE s.interviewContextRef.jd
      resume == IF variant = "earlier" THEN "" ELSE s.interviewContextRef.resume
      storedApiKey == s.interviewContextRef.apiKey
      s1 == IF s.sessionRef # NULL
              THEN [Did(s, "session.close")
                      EXCEPT !.sock[s.sessionRef] = closeSocket(@),
                             !.sessionRef = NULL]
              ELSE s
      s2 == cleanup(s1)
      s3 == [s2 EXCEPT !.isActive = FALSE, !.isConnecting = FALSE,
                       !.isSpeaking = FALSE, !.capturedFramesRef = <<>>,
                       !.lastFrameCaptureTimeRef = 0]
  IN  IF T # <<>>
        THEN generateFeedback(s3, T, s3.capturedFramesRef, jd, resume,
                              storedApiKey)
        ELSE s3

stopSession(s, T, JD) ==
  LET currentFrames == s.capturedFramesRef
      jd == IF variant = "earlier" THEN JD ELSE s.interviewContextRef.jd
      resume == IF variant = "earlier" THEN "" ELSE s.interviewContextRef.resume
      storedApiKey == s.interviewContextRef.apiKey
      s1 == IF s.sessionRef # NULL
              THEN [Did(s, "session.close")
                      EXCEPT !.sock[s.sessionRef] = closeSocket(@),
                             !.sessionRef = NULL]
              ELSE s
      s2 == cleanup(s1)
      s3 == [s2 EXCEPT !.isActive = FALSE, !.isConnecting = FALSE,
                       !.isSpeaking = FALSE, !.capturedFramesRef = <<>>,
                       !.lastFrameCaptureTimeRef = 0]
  IN  IF T # <<>>
        THEN generateFeedback(s3, T, currentFrames, jd, resume, storedApiKey)
        ELSE s3

(***************************************************************************)
(* handleMessage (App.tsx 370-454)                                         *)
(***************************************************************************)
(* decodeAudioData of services/audio-processing: the duration of the       *)
(* buffer it resolves to; awaiting it suspends handleMessage               *)
decodeAudioData(m) == m.audio

(* 373-380: up to the await of decodeAudioData *)
audioArrived(s) ==
  LET s1 == [s EXCEPT !.isSpeaking = TRUE]
  IN  IF s1.outputAudioContextRef
        THEN [s1 EXCEPT !.nextStartTimeRef = Max(@, currentTime)]
        ELSE s1

(* a faulty enqueue, which leaves the cursor where it was *)
enqueueNoAdvance(s, d) ==
  LET start == s.nextStartTimeRef
      src == Len(s.schedule) + 1
  IN  [Did(s, "source.start")
         EXCEPT !.schedule = Append(@, [start |-> start, dur |-> d,
                                        began |-> Max(start, currentTime)]),
                !.sourcesRef = @ \cup {src}]

(* 381-390: after the await; d is audioBuffer.duration *)
enqueue(s, d) ==
  LET start == s.nextStartTimeRef
      src == Len(s.schedule) + 1
  IN  [Did(s, "source.start")
         EXCEPT !.schedule = Append(@, [start |-> start, dur |-> d,
                                        began |-> Max(start, currentTime)]),
                !.nextStartTimeRef = start + d,
                !.sourcesRef = @ \cup {src}]

(* a faulty interrupt, which stops the sources and keeps the cursor *)
interruptKeepsCursor(s) ==
  LET n == Cardinality(s.sourcesRef)
  IN  [Did(s, "interrupted")
         EXCEPT !.endedPending = IF @ + n > MaxChunks THEN MaxChunks ELSE @ + n,
                !.sourcesRef = {},
                !.schedule = <<>>,
                !.isSpeaking = FALSE]

(* 394-402 *)
interrupt(s) ==
  LET n == Cardinality(s.sourcesRef)
  IN  [Did(s, "interrupted")
         EXCEPT !.endedPending = IF @ + n > MaxChunks THEN MaxChunks ELSE @ + n,
                !.sourcesRef = {},
                !.schedule = <<>>,
                !.nextStartTimeRef = 0,
                !.isSpeaking = FALSE]

(* a faulty partialText, which requests an animation frame every time *)
partialTextUnthrottled(s, role, text) ==
  [s EXCEPT !.transcriptionBufferRef[role] = @ \o text,
            !.pendingTextRef[role] = @ \o text,
            !.rafPending = @ + 1,
            !.rafRef = TRUE]

(* 405-417 and 418-430; rafPending counts the animation-frame callbacks    *)
(* that were requested and have neither run nor been cancelled             *)
partialText(s, role, text) ==
  [s EXCEPT !.transcriptionBufferRef[role] = @ \o text,
            !.pendingTextRef[role] = @ \o text,
            !.rafPending = IF s.rafRef THEN @ ELSE @ + 1,
            !.rafRef = TRUE]

(* a faulty turnComplete, which puts the model entry before the user entry *)
turnCompleteModelFirst(s) ==
  LET uText == trim(s.transcriptionBufferRef.user)
      mText == trim(s.transcriptionBufferRef.model)
      entries ==
        (IF mText # <<>> THEN <<[role |-> "model", text |-> mText]>> ELSE <<>>)
        \o
        (IF uText # <<>> THEN <<[role |-> "user", text |-> uText]>> ELSE <<>>)
      s1 == Did(s, "turnComplete")
      s2 == CASE uText # <<>> /\ mText # <<>> ->
                   Did(s1, "setTranscriptions(user,model)")
               [] uText # <<>> -> Did(s1, "setTranscriptions(user)")
               [] mText # <<>> -> Did(s1, "setTranscriptions(model)")
               [] OTHER -> s1
  IN  [s2 EXCEPT !.rafRef = FALSE,
                 !.rafPending = IF s.rafRef THEN @ - 1 ELSE @,
                 !.transcriptions = @ \o entries,
                 !.transcriptionBufferRef = EmptyText,
                 !.pendingTextRef = EmptyText,
                 !.realtimeText = EmptyText]

(* a faulty turnComplete, which tests and emits the accumulators untrimmed *)
turnCompleteNoTrim(s) ==
  LET uText == s.transcriptionBufferRef.user
      mText == s.transcriptionBufferRef.model
      entries ==
        (IF uText # <<>> THEN <<[role |-> "user", text |-> uText]>> ELSE <<>>)
        \o
        (IF mText # <<>> THEN <<[role |-> "model", text |-> mText]>> ELSE <<>>)
      s1 == Did(s, "turnComplete")
      s2 == CASE uText # <<>> /\ mText # <<>> ->
                   Did(s1, "setTranscriptions(user,model)")
               [] uText # <<>> -> Did(s1, "setTranscriptions(user)")
               [] mText # <<>> -> Did(s1, "setTranscriptions(model)")
               [] OTHER -> s1
  IN  [s2 EXCEPT !.rafRef = FALSE,
                 !.rafPending = IF s.rafRef THEN @ - 1 ELSE @,
                 !.transcriptions = @ \o entries,
                 !.transcriptionBufferRef = EmptyText,
                 !.pendingTextRef = EmptyText,
                 !.realtimeText = EmptyText]

(* a faulty turnComplete, which puts the new entries before the old ones *)
turnCompletePrepends(s) ==
  LET uText == trim(s.transcriptionBufferRef.user)
      mText == trim(s.transcriptionBufferRef.model)
      entries ==
        (IF uText # <<>> THEN <<[role |-> "user", text |-> uText]>> ELSE <<>>)
        \o
        (IF mText # <<>> THEN <<[role |-> "model", text |-> mText]>> ELSE <<>>)
      s1 == Did(s, "turnComplete")
      s2 == CASE uText # <<>> /\ mText # <<>> ->
                   Did(s1, "setTranscriptions(user,model)")
               [] uText # <<>> -> Did(s1, "setTranscriptions(user)")
               [] mText # <<>> -> Did(s1, "setTranscriptions(model)")
               [] OTHER -> s1
  IN  [s2 EXCEPT !.rafRef = FALSE,
                 !.rafPending = IF s.rafRef THEN @ - 1 ELSE @,
                 !.transcriptions = entries \o @,
                 !.transcriptionBufferRef = EmptyText,
                 !.pendingTextRef = EmptyText,
                 !.realtimeText = EmptyText]

(* 431-450 *)
turnComplete(s) ==
  LET uText == trim(s.transcriptionBufferRef.user)
      mText == trim(s.transcriptionBufferRef.model)
      entries ==
        (IF uText # <<>> THEN <<[role |-> "user", text |-> uText]>> ELSE <<>>)
        \o
        (IF mText # <<>> THEN <<[role |-> "model", text |-> mText]>> ELSE <<>>)
      s1 == Did(s, "turnComplete")
      s2 == CASE uText # <<>> /\ mText # <<>> ->
                   Did(s1, "setTranscriptions(user,model)")
               [] uText # <<>> -> Did(s1, "setTranscriptions(user)")
               [] mText # <<>> -> Did(s1, "setTranscriptions(model)")
               [] OTHER -> s1
  IN  [s2 EXCEPT !.rafRef = FALSE,
                 !.rafPending = IF s.rafRef THEN @ - 1 ELSE @,
                 !.transcriptions = @ \o entries,
                 !.transcriptionBufferRef = EmptyText,
                 !.pendingTextRef = EmptyText,
                 !.realtimeText = EmptyText]

(* 394-450: what handleMessage does after the audio part *)
afterAudio(s, m) ==
  LET s1 == IF m.interrupted THEN interrupt(s) ELSE s
      s2 == IF m.input # <<>> THEN partialText(s1, "user", m.input) ELSE s1
      s3 == IF m.output # <<>> THEN partialText(s2, "model", m.output) ELSE s2
  IN  IF m.turnComplete THEN turnComplete(s3) ELSE s3


(***************************************************************************)
(* startSession (App.tsx 456-594)                                          *)
(***************************************************************************)
(* 457-476: up to the await of getUserMedia *)
keyMissing(s) ==
  IF variant = "earlier" THEN s.apiKey = <<>> ELSE trim(s.apiKey) = <<>>

startSessionBegin(s) ==
  IF keyMissing(s)
    THEN [s EXCEPT !.error = "missing-key"]
    ELSE [Did(s, "getUserMedia")
            EXCEPT !.interviewContextRef =
                      IF variant = "earlier" THEN @
                      ELSE [jd |-> s.jobDescription,
                            resume |-> s.resumeContent,
                            apiKey |-> trim(s.apiKey)],
                   !.error = None,
                   !.isConnecting = TRUE,
                   !.showSetupForm = FALSE]

(* a faulty microphoneGranted, which wires the microphone to the outbound  *)
(* audio callback as soon as the stream exists                             *)
microphoneGrantedWires(s, a) ==
  [Did(s, "live.connect")
     EXCEPT !.streamRef = a,
            !.outputAudioContextRef = TRUE,
            !.mediaSourceRef = a,
            !.scriptProcessorRef = a,
            !.sock[a] = "connecting"]

(* 477-497: the stream of attempt a is stored, the audio contexts exist,   *)
(* ai.live.connect is called                                               *)
microphoneGranted(s, a) ==
  [Did(s, "live.connect")
     EXCEPT !.streamRef = a,
            !.outputAudioContextRef = TRUE,
            !.sock[a] = "connecting"]

(* 569-592 (1600-1608 in the earlier App): the class of the message shown  *)
(* for a failure; the classes stand for the six texts of setError           *)
classify(name, message) ==
  IF name = "NotAllowedError" THEN "mic-denied"
  ELSE IF name = "NotFoundError" THEN "mic-not-found"
  ELSE IF variant = "earlier"
    THEN IF includes(message, "API key") THEN "invalid-key" ELSE "unknown"
  ELSE IF \/ includes(message, "API_KEY_INVALID")
          \/ includes(message, "API key not valid")
          \/ includes(message, "invalid api key")
          \/ includes(message, "401")
          \/ includes(message, "403")
          \/ includes(message, "PERMISSION_DENIED")
          \/ includes(message, "UNAUTHENTICATED") THEN "invalid-key"
  ELSE IF \/ includes(message, "quota")
          \/ includes(message, "RESOURCE_EXHAUSTED") THEN "quota"
  ELSE IF \/ includes(message, "not found")
          \/ includes(message, "NOT_FOUND") THEN "model-unavailable"
  ELSE "unknown"

(* a faulty catch block, which does not call cleanup *)
startFailedNoCleanup(s, name, message) ==
  [s EXCEPT !.isConnecting = FALSE,
            !.showSetupForm = IF variant = "earlier" THEN @ ELSE TRUE,
            !.error = classify(name, message)]

(* 563-593: the catch block *)
startFailed(s, name, message) ==
  LET s1 == cleanup(s)
  IN  [s1 EXCEPT !.isConnecting = FALSE,
                 !.showSetupForm = IF variant = "earlier" THEN @ ELSE TRUE,
                 !.error = classify(name, message)]

(* 510-543: callbacks.onopen of attempt a *)
onopen(s, a) ==
  [Did(s, "onopen")
     EXCEPT !.isSessionOpenRef = TRUE,
            !.isActive = TRUE,
            !.isConnecting = FALSE,
            !.mediaSourceRef = a,
            !.scriptProcessorRef = a]

(* 545-551: callbacks.onerror of attempt a *)
onerror(s, a) ==
  LET s1 == [Did(s, "isSessionOpen:=false") EXCEPT !.isSessionOpenRef = FALSE,
                                                   !.error = "connection"]
  IN  stopSession(s1, closureT[a], startedWith[a].jd)

(* 552-557: callbacks.onclose of attempt a *)
onclose(s, a) ==
  LET s1 == [Did(s, "isSessionOpen:=false") EXCEPT !.isSessionOpenRef = FALSE]
  IN  stopSession(s1, closureT[a], startedWith[a].jd)

(* 561: the session handle is stored when connect has returned *)
connectReturned(s, a) == [s EXCEPT !.sessionRef = a]

(***************************************************************************)
(* Outbound sends                                                          *)
(***************************************************************************)
(* a faulty onaudioprocess, which sends without looking at the open flag *)
onaudioprocessUnchecked(s, outcome) ==
  IF s.sessionRef # NULL
    THEN LET s1 == Did(s, "sendRealtimeInput")
         IN  IF outcome = "ok"
               THEN s1
               ELSE IF includesCLOS(outcome) \/ includesNotOpen(outcome)
                      THEN [Did(s1, outcome) EXCEPT !.isSessionOpenRef = FALSE]
                      ELSE Did(s1, outcome)
    ELSE s

(* 523-539: scriptProcessor.onaudioprocess; outcome is what                *)
(* sendRealtimeInput does                                                  *)
onaudioprocess(s, outcome) ==
  IF s.isSessionOpenRef /\ s.sessionRef # NULL
    THEN LET s1 == Did(s, "sendRealtimeInput")
         IN  IF outcome = "ok"
               THEN s1
               ELSE IF includesCLOS(outcome) \/ includesNotOpen(outcome)
                      THEN [Did(s1, outcome) EXCEPT !.isSessionOpenRef = FALSE]
                      ELSE Did(s1, outcome)
    ELSE s

(* a faulty handleFrame, which on overflow drops the frame just pushed *)
handleFrameDropsNewest(s, base64, outcome) ==
  IF s.isSessionOpenRef /\ s.sessionRef # NULL /\ s.isActive
    THEN LET s1 == Did(s, "sendRealtimeInput")
             now == Epoch + dateNow
         IN  IF outcome = "ok"
               THEN IF now - s1.lastFrameCaptureTimeRef >= FRAME_CAPTURE_INTERVAL
                      THEN [s1 EXCEPT
                              !.lastFrameCaptureTimeRef = now,
                              !.capturedFramesRef =
                                 IF Len(@) + 1 > MAX_FRAMES_FOR_FEEDBACK
                                   THEN @
                                   ELSE Append(@, base64)]
                      ELSE s1
               ELSE IF includesCLOS(outcome)
                      THEN [Did(s1, outcome) EXCEPT !.isSessionOpenRef = FALSE]
                      ELSE Did(s1, outcome)
    ELSE s

(* a faulty handleFrame, which retains the frame before it sends it *)
handleFrameRetainsFirst(s, base64, outcome) ==
  IF s.isSessionOpenRef /\ s.sessionRef # NULL /\ s.isActive
    THEN LET now == Epoch + dateNow
             s0 == IF now - s.lastFrameCaptureTimeRef >= FRAME_CAPTURE_INTERVAL
                     THEN [s EXCEPT
                             !.lastFrameCaptureTimeRef = now,
                             !.capturedFramesRef =
                                IF Len(@) + 1 > MAX_FRAMES_FOR_FEEDBACK
                                  THEN Tail(Append(@, base64))
                                  ELSE Append(@, base64)]
                     ELSE s
             s1 == Did(s0, "sendRealtimeInput")
         IN  IF outcome = "ok"
               THEN s1
               ELSE IF includesCLOS(outcome)
                      THEN [Did(s1, outcome) EXCEPT !.isSessionOpenRef = FALSE]
                      ELSE Did(s1, outcome)
    ELSE s

(* a faulty handleFrame, which retains every frame it forwards *)
handleFrameRetainsAll(s, base64, outcome) ==
  IF s.isSessionOpenRef /\ s.sessionRef # NULL /\ s.isActive
    THEN LET s1 == Did(s, "sendRealtimeInput")
             now == Epoch + dateNow
         IN  IF outcome = "ok"
               THEN [s1 EXCEPT
                       !.lastFrameCaptureTimeRef = now,
                       !.capturedFramesRef =
                          IF Len(@) + 1 > MAX_FRAMES_FOR_FEEDBACK
                            THEN Tail(Append(@, base64))
                            ELSE Append(@, base64)]
               ELSE IF includesCLOS(outcome)
                      THEN [Did(s1, outcome) EXCEPT !.isSessionOpenRef = FALSE]
                      ELSE Did(s1, outcome)
    ELSE s

(* 596-621: handleFrame *)
handleFrame(s, base64, outcome) ==
  IF s.isSessionOpenRef /\ s.sessionRef # NULL /\ s.isActive
    THEN LET s1 == Did(s, "sendRealtimeInput")
             now == Epoch + dateNow
         IN  IF outcome = "ok"
               THEN IF now - s1.lastFrameCaptureTimeRef >= FRAME_CAPTURE_INTERVAL
                      THEN [s1 EXCEPT
                              !.lastFrameCaptureTimeRef = now,
                              !.capturedFramesRef =
                                 IF Len(@) + 1 > MAX_FRAMES_FOR_FEEDBACK
                                   THEN Tail(Append(@, base64))
                                   ELSE Append(@, base64)]
                      ELSE s1
               ELSE IF includesCLOS(outcome)
                      THEN [Did(s1, outcome) EXCEPT !.isSessionOpenRef = FALSE]
                      ELSE Did(s1, outcome)
    ELSE s

(* what a send on the session held by sessionRef can do: it returns, or it *)
(* throws; the remote side can be gone before onclose or onerror has told  *)
(* the program so                                                          *)
SendResults(s) == SendOutcomes

(***************************************************************************)
(* handleNewInterview (App.tsx 643-647; 1797-1800 in the earlier App)      *)
(***************************************************************************)
handleNewInterview(s) ==
  [s EXCEPT !.endFeedback = None,
            !.transcriptions = <<>>,
            !.showSetupForm = IF variant = "earlier" THEN @ ELSE TRUE]


(***************************************************************************)
(* Inbound messages the exploration draws from                             *)
(***************************************************************************)
TextMessages ==
  { [NoMsg EXCEPT !.input = i, !.output = o, !.turnComplete = tc] :
      i \in PartialTexts \cup {<<>>}, o \in PartialTexts \cup {<<>>},
      tc \in BOOLEAN } \ {NoMsg}

AudioMessages ==
  { [NoMsg EXCEPT !.audio = d, !.interrupted = b] :
      d \in Durations, b \in BOOLEAN }
  \cup { [NoMsg EXCEPT !.interrupted = TRUE] }

entriesOf(m) ==
  (IF trim(transcriptionBufferRef.user \o m.input) # <<>> THEN 1 ELSE 0)
  + (IF trim(transcriptionBufferRef.model \o m.output) # <<>> THEN 1 ELSE 0)

(* the bounds of the exploration, as a condition on the next message *)
Fits(m) ==
  /\ Len(transcriptionBufferRef.user) + Len(m.input) <= MaxText
  /\ Len(transcriptionBufferRef.model) + Len(m.output) <= MaxText
  /\ m.turnComplete => Len(transcriptions) + entriesOf(m) <= MaxTranscript
  /\ m.audio # 0 => /\ Len(decoding) < MaxDecoding
                    /\ Len(schedule) + Len(decoding) < MaxChunks

(***************************************************************************)
(* VideoPreview (components/VideoPreview.tsx), as one record:              *)
(*   mounted      the variable of that name in the camera effect           *)
(*   pc           where startPreview stands: "requested" (awaiting         *)
(*                getUserMedia), "attached" (stream on the video element,  *)
(*                onloadedmetadata set), "playing" (awaiting play()),      *)
(*                "settled", "refused", "released" (stream stopped on      *)
(*                arrival)                                                 *)
(*   streamRef    streamRef.current                                        *)
(*   tracks       the tracks of the camera stream: "none" before the       *)
(*                stream exists, then "live" until they are stopped        *)
(*   srcObject    whether the stream is on the video element               *)
(*   cameraState, errorMessage   the component's state                     *)
(*   interval     the variable of that name in the last run of the frame   *)
(*                effect                                                   *)
(*   intervals    the timers set by setInterval and not cleared            *)
(***************************************************************************)
PreviewMounted ==
  [mounted |-> TRUE, pc |-> "requested", streamRef |-> NULL, tracks |-> "none",
   srcObject |-> FALSE, cameraState |-> "loading", errorMessage |-> "",
   interval |-> NULL, intervals |-> 0]

(* the preview once play() has resolved *)
PreviewReady ==
  [PreviewMounted EXCEPT !.pc = "settled", !.streamRef = 1, !.tracks = "live",
                         !.srcObject = TRUE, !.cameraState = "ready"]

CameraErrors == {"NotAllowedError", "NotFoundError", "NotReadableError", "other"}

(* a faulty startPreview, which does not look at mounted when the stream   *)
(* arrives                                                                 *)
cameraGrantedUnchecked(p) ==
  [p EXCEPT !.tracks = "live", !.streamRef = 1, !.srcObject = p.mounted \/ @,
            !.pc = "attached"]

(* 22-52: getUserMedia has resolved *)
cameraGranted(p) ==
  IF ~p.mounted
    THEN [p EXCEPT !.tracks = "stopped", !.pc = "released"]
    ELSE [p EXCEPT !.tracks = "live", !.streamRef = 1, !.srcObject = TRUE,
                   !.pc = "attached"]

(* 53-67: getUserMedia has rejected *)
cameraRefused(p, name) ==
  IF p.mounted
    THEN [p EXCEPT !.pc = "refused", !.cameraState = "error",
                   !.errorMessage =
                      IF name = "NotAllowedError" THEN "access denied"
                      ELSE IF name = "NotFoundError" THEN "no camera"
                      ELSE IF name = "NotReadableError" THEN "in use"
                      ELSE "camera error"]
    ELSE [p EXCEPT !.pc = "refused"]

(* 42-51: onloadedmetadata *)
onloadedmetadata(p) ==
  IF p.mounted THEN [p EXCEPT !.pc = "playing"] ELSE [p EXCEPT !.pc = "settled"]

(* 45-48: play() has resolved; a state update of an unmounted component    *)
(* changes nothing                                                         *)
playResolved(p) ==
  [p EXCEPT !.pc = "settled",
            !.cameraState = IF p.mounted THEN "ready" ELSE @]

(* 48-50: play() has rejected *)
playRejected(p) == [p EXCEPT !.pc = "settled"]

(* a faulty frame effect, which returns no cleanup *)
frameEffectKeeps(p, active) ==
  IF active /\ p.cameraState = "ready"
    THEN [p EXCEPT !.interval = 1, !.intervals = @ + 1]
    ELSE [p EXCEPT !.interval = NULL]

(* 106-110: the cleanup the last run of the frame effect returned *)
frameCleanup(p) ==
  IF p.interval # NULL
    THEN [p EXCEPT !.intervals = @ - 1, !.interval = NULL]
    ELSE p

(* 82-111: the frame effect runs again: the cleanup of its last run, then  *)
(* its body; onFrame is handleFrame, which is never undefined               *)
frameEffect(p, active) ==
  LET q == frameCleanup(p)
  IN  IF active /\ q.cameraState = "ready"
        THEN [q EXCEPT !.interval = 1, !.intervals = @ + 1]
        ELSE q

(* 111: a render of the mounted preview runs the frame effect again when   *)
(* isActive, onFrame or cameraState has changed; handleFrame is a          *)
(* useCallback on isActive (App.tsx 621), so onFrame changes with isActive *)
rendered(p0, p1, active0, active1) ==
  IF p1.mounted /\ (active0 # active1 \/ p0.cameraState # p1.cameraState)
    THEN frameEffect(p1, active1)
    ELSE p1

(* 72-78 and 106-110: the component unmounts, the cleanups of both effects *)
(* run                                                                     *)
unmount(p) ==
  LET q == frameCleanup(p)
  IN  IF q.streamRef # NULL
        THEN [q EXCEPT !.mounted = FALSE, !.tracks = "stopped",
                       !.streamRef = NULL]
        ELSE [q EXCEPT !.mounted = FALSE]

(***************************************************************************)
(* Initial state: the component as mounted                                 *)
(***************************************************************************)
InitCommon ==
  /\ isActive = FALSE /\ isConnecting = FALSE /\ isSpeaking = FALSE
  /\ transcriptions = <<>> /\ error = None /\ realtimeText = EmptyText
  /\ endFeedback = None /\ isGeneratingFeedback = FALSE
  /\ outputAudioContextRef = FALSE /\ nextStartTimeRef = 0
  /\ sourcesRef = {} /\ sessionRef = NULL /\ streamRef = NULL
  /\ scriptProcessorRef = NULL /\ mediaSourceRef = NULL
  /\ transcriptionBufferRef = EmptyText /\ isSessionOpenRef = FALSE
  /\ pendingTextRef = EmptyText /\ rafRef = FALSE /\ rafPending = 0
  /\ capturedFramesRef = <<>> /\ lastFrameCaptureTimeRef = 0
  /\ interviewContextRef = [jd |-> "", resume |-> "", apiKey |-> <<>>]
  /\ jobDescription = "" /\ resumeContent = ""
  /\ pc = [a \in Attempts |-> "idle"]
  /\ sock = [a \in Attempts |-> "none"]
  /\ closureT = [a \in Attempts |-> <<>>]
  /\ startedWith = [a \in Attempts |-> [jd |-> "", resume |-> "", apiKey |-> <<>>]]
  /\ feedbackCalls = <<>> /\ decoding = <<>> /\ schedule = <<>>
  /\ endedPending = 0 /\ currentTime = 0 /\ dateNow = 0 /\ nAttempts = 0
  /\ arrived = EmptyText /\ completed = EmptyText /\ caught = NoError
  /\ lastOp = "mount" /\ effects = <<>>

(* the App as mounted, its camera preview started *)
Init ==
  /\ variant = "current"
  /\ showSetupForm = TRUE
  /\ apiKey = <<>>
  /\ InitCommon
  /\ preview = PreviewReady

(* the App as mounted, the camera of its preview requested *)
InitPreview ==
  /\ variant = "current"
  /\ showSetupForm = TRUE
  /\ apiKey = <<>>
  /\ InitCommon
  /\ preview = PreviewMounted

(* the earlier App: no setup form, the key comes from process.env *)
InitEarlier ==
  /\ variant = "earlier"
  /\ showSetupForm = FALSE
  /\ apiKey \in ApiKeys
  /\ InitCommon
  /\ preview = PreviewReady

(***************************************************************************)
(* Actions: one per handler run                                            *)
(***************************************************************************)
(* the record of what has arrived: a handler that takes no message leaves  *)
(* it alone; the arrival of message m extends it by the partial texts of m *)
(* and closes it if m completes the turn                                   *)
Quiet ==
  /\ arrived' = arrived
  /\ completed' = EmptyText

HeardWith(m) == [user |-> arrived.user \o m.input,
                 model |-> arrived.model \o m.output]

Arrives(m) == arrived' = IF m.turnComplete THEN EmptyText ELSE HeardWith(m)

(* handleMessage runs to its end on m in the callback that delivered it *)
Heard(m) ==
  /\ Arrives(m)
  /\ completed' = IF m.turnComplete THEN HeardWith(m) ELSE EmptyText

(* message m as it waits for decodeAudioData, with what had arrived for its *)
(* turn when it came                                                        *)
Suspended(m) ==
  [x \in DOMAIN m \cup {"heard"} |-> IF x = "heard" THEN HeardWith(m) ELSE m[x]]

RunCaught(op, s, e) ==
  /\ Commit(s)
  /\ lastOp' = op
  /\ caught' = e
  /\ preview' = rendered(preview, preview, isActive, s.isActive)
  /\ UNCHANGED variant

Run(op, s) == RunCaught(op, s, NoError)

Step(op, s) ==
  /\ Run(op, s)
  /\ Quiet

attemptVars == <<pc, closureT, startedWith, nAttempts>>
clockVars == <<currentTime, dateNow>>

StartShown ==
  IF variant = "earlier"
    THEN ~isActive /\ ~isConnecting
    ELSE showSetupForm /\ ~isConnecting /\ ~isActive

(* the API key field of the setup form (App.tsx 682) *)
SetApiKey(k) ==
  /\ variant = "current"
  /\ StartShown
  /\ k # apiKey
  /\ Step("setApiKey", [S EXCEPT !.apiKey = k])
  /\ UNCHANGED <<attemptVars, decoding, clockVars>>


(* the job description field (App.tsx 744; 1894 in the earlier App, where  *)
(* it is shown while no session is active and no feedback is on screen)    *)
SetJobDescription(j) ==
  /\ IF variant = "earlier"
       THEN ~isGeneratingFeedback /\ endFeedback = None /\ ~isActive
       ELSE StartShown
  /\ j # jobDescription
  /\ Step("setJobDescription", [S EXCEPT !.jobDescription = j])
  /\ UNCHANGED <<attemptVars, decoding, clockVars>>

(* the resume field of the setup form (App.tsx 726) *)
SetResumeContent(r) ==
  /\ variant = "current"
  /\ StartShown
  /\ r # resumeContent
  /\ Step("setResumeContent", [S EXCEPT !.resumeContent = r])
  /\ UNCHANGED <<attemptVars, decoding, clockVars>>

(* the Start Interview button (App.tsx 770; 1681 in the earlier App) *)
StartSession ==
  /\ StartShown
  /\ variant = "current" => trim(apiKey) # <<>>
  /\ IF keyMissing(S)
       THEN /\ Step("startSession", startSessionBegin(S))
            /\ UNCHANGED <<attemptVars, decoding, clockVars>>
       ELSE /\ nAttempts < MaxSessions
            /\ nAttempts' = nAttempts + 1
            /\ pc' = [pc EXCEPT ![nAttempts + 1] = "mic"]
            /\ closureT' = [closureT EXCEPT ![nAttempts + 1] = transcriptions]
            /\ startedWith' = [startedWith EXCEPT ![nAttempts + 1] =
                                 [jd |-> jobDescription,
                                  resume |-> resumeContent,
                                  apiKey |-> apiKey]]
            /\ Step("startSession", startSessionBegin(S))
            /\ UNCHANGED <<decoding, clockVars>>

(* getUserMedia resolves *)
MicrophoneGranted(a) ==
  /\ pc[a] = "mic"
  /\ pc' = [pc EXCEPT ![a] = "connect"]
  /\ Step("microphoneGranted", microphoneGranted(S, a))
  /\ UNCHANGED <<closureT, startedWith, nAttempts, decoding, clockVars>>

(* getUserMedia rejects *)
MicrophoneRefused(a, name) ==
  /\ pc[a] = "mic"
  /\ pc' = [pc EXCEPT ![a] = "done"]
  /\ \E message \in MicMessages :
       /\ RunCaught("startFailed", startFailed(S, name, message),
                    [name |-> name, message |-> message])
       /\ Quiet
  /\ UNCHANGED <<closureT, startedWith, nAttempts, decoding, clockVars>>

(* ai.live.connect rejects before the connection has opened *)
ConnectRejected(a, message) ==
  /\ pc[a] = "connect"
  /\ sock[a] = "connecting"
  /\ pc' = [pc EXCEPT ![a] = "done"]
  /\ RunCaught("startFailed",
               startFailed([S EXCEPT !.sock[a] = "closed"], "Error", message),
               [name |-> "Error", message |-> message])
  /\ Quiet
  /\ UNCHANGED <<closureT, startedWith, nAttempts, decoding, clockVars>>

(* the connection of attempt a opens; ai.live.connect can return from now  *)
(* on                                                                      *)
OnOpen(a) ==
  /\ pc[a] = "connect"
  /\ sock[a] = "connecting"
  /\ pc' = [pc EXCEPT ![a] = "opened"]
  /\ Step("onopen", onopen([S EXCEPT !.sock[a] = "open"], a))
  /\ UNCHANGED <<closureT, startedWith, nAttempts, decoding, clockVars>>

(* ai.live.connect returns the session, after the connection has opened *)
ConnectReturned(a) ==
  /\ pc[a] = "opened"
  /\ pc' = [pc EXCEPT ![a] = "done"]
  /\ Step("connectReturned", connectReturned(S, a))
  /\ UNCHANGED <<closureT, startedWith, nAttempts, decoding, clockVars>>

(* the connection of attempt a reports an error *)
OnError(a) ==
  /\ sock[a] \in {"connecting", "open"}
  /\ Step("onerror", onerror([S EXCEPT !.sock[a] = "errored"], a))
  /\ UNCHANGED <<attemptVars, decoding, clockVars>>

(* the connection of attempt a closes: by the remote side, after an error, *)
(* or as the answer to session.close()                                     *)
OnClose(a) ==
  /\ sock[a] \in {"connecting", "open", "closing", "errored"}
  /\ Step("onclose", onclose([S EXCEPT !.sock[a] = "closed"], a))
  /\ UNCHANGED <<attemptVars, decoding, clockVars>>

(* the End Session button (App.tsx 824): the stopSession of the current    *)
(* render                                                                  *)
StopSession ==
  /\ ~isConnecting /\ isActive
  /\ Step("stopSession", stopSession(S, transcriptions, jobDescription))
  /\ UNCHANGED <<attemptVars, decoding, clockVars>>

(* generateContent resolves with text, resolves without text, or rejects *)
FeedbackSettled(i, outcome) ==
  /\ i \in 1..Len(feedbackCalls)
  /\ Step("feedbackSettled", feedbackSettled(S, i, outcome))
  /\ UNCHANGED <<attemptVars, decoding, clockVars>>

(* the New Interview button (App.tsx 918) *)
HandleNewInterview ==
  /\ ~isGeneratingFeedback /\ endFeedback # None
  /\ Step("handleNewInterview", handleNewInterview(S))
  /\ UNCHANGED <<attemptVars, decoding, clockVars>>

(* the Dismiss button of the error overlay (App.tsx 1037) *)
DismissError ==
  /\ error # None
  /\ Step("dismissError", [S EXCEPT !.error = None])
  /\ UNCHANGED <<attemptVars, decoding, clockVars>>

(* a message of the connection of attempt a is delivered to handleMessage; *)
(* with audio data the handler stops at the await of decodeAudioData       *)
OnMessage(a, m) ==
  /\ sock[a] \in {"open", "closing"}
  /\ Fits(m)
  /\ IF m.audio # 0 /\ outputAudioContextRef
       THEN /\ decoding' = Append(decoding, Suspended(m))
            /\ Run("onmessage", audioArrived(S))
            /\ Arrives(m)
            /\ completed' = EmptyText
       ELSE /\ decoding' = decoding
            /\ Run("onmessage",
                   afterAudio(IF m.audio # 0 THEN audioArrived(S) ELSE S, m))
            /\ Heard(m)
  /\ UNCHANGED <<attemptVars, clockVars>>

(* decodeAudioData resolves and handleMessage runs to its end *)
DecodeDone(i) ==
  /\ i \in 1..Len(decoding)
  /\ decoding' = RemoveAt(decoding, i)
  /\ Run("decodeDone",
         afterAudio(enqueue(S, decodeAudioData(decoding[i])), decoding[i]))
  /\ arrived' = arrived
  /\ completed' = IF decoding[i].turnComplete THEN decoding[i].heard ELSE EmptyText
  /\ UNCHANGED <<attemptVars, clockVars>>

(* source.onended of a source that played to its end (App.tsx 384-387) *)
SourceEnded(src) ==
  /\ src \in sourcesRef
  /\ currentTime >= schedule[src].began + schedule[src].dur
  /\ Step("onended",
          [S EXCEPT !.sourcesRef = @ \ {src},
                    !.isSpeaking = IF sourcesRef \ {src} = {} THEN FALSE ELSE @])
  /\ UNCHANGED <<attemptVars, decoding, clockVars>>

(* source.onended of a source that was stopped and is no longer in the set *)
StoppedSourceEnded ==
  /\ endedPending > 0
  /\ Step("onended",
          [S EXCEPT !.endedPending = @ - 1,
                    !.isSpeaking = IF sourcesRef = {} THEN FALSE ELSE @])
  /\ UNCHANGED <<attemptVars, decoding, clockVars>>

(* the animation frame requested at App.tsx 412 / 425 *)
AnimationFrame ==
  /\ rafPending > 0
  /\ Step("animationFrame",
          [S EXCEPT !.realtimeText = pendingTextRef, !.rafRef = FALSE,
                    !.rafPending = @ - 1])
  /\ UNCHANGED <<attemptVars, decoding, clockVars>>

(* the script processor wired at onopen delivers a chunk *)
AudioProcess ==
  /\ scriptProcessorRef # NULL
  /\ \E outcome \in SendResults(S) :
       Step("onaudioprocess", onaudioprocess(S, outcome))
  /\ UNCHANGED <<attemptVars, decoding, clockVars>>

(* VideoPreview.tsx 86-101: the callback of a capture timer; the video     *)
(* element and the canvas are there and the video has its size             *)
CaptureTick(base64) ==
  /\ preview.intervals > 0
  /\ \E outcome \in SendResults(S) :
       Step("handleFrame", handleFrame(S, base64, outcome))
  /\ UNCHANGED <<attemptVars, decoding, clockVars>>

(* the audio clock advances *)
Tick ==
  /\ outputAudioContextRef
  /\ currentTime < MaxClock
  /\ currentTime' = currentTime + 1
  /\ lastOp' = "tick"
  /\ effects' = <<>>
  /\ UNCHANGED <<showSetupForm, apiKey, jobDescription, resumeContent,
                 isActive, isConnecting, isSpeaking,
                 transcriptions, error, realtimeText, endFeedback,
                 isGeneratingFeedback, outputAudioContextRef, nextStartTimeRef,
                 sourcesRef, sessionRef, streamRef, scriptProcessorRef,
                 mediaSourceRef, transcriptionBufferRef, isSessionOpenRef,
                 pendingTextRef, rafRef, rafPending, capturedFramesRef,
                 lastFrameCaptureTimeRef, interviewContextRef, sock,
                 feedbackCalls, schedule, endedPending>>
  /\ UNCHANGED <<variant, caught, attemptVars, decoding, dateNow, preview>>
  /\ Quiet

(* Date.now() advances *)
DateTick ==
  /\ dateNow < MaxDate
  /\ dateNow' = dateNow + DateStep
  /\ lastOp' = "dateTick"
  /\ effects' = <<>>
  /\ UNCHANGED <<showSetupForm, apiKey, jobDescription, resumeContent,
                 isActive, isConnecting, isSpeaking,
                 transcriptions, error, realtimeText, endFeedback,
                 isGeneratingFeedback, outputAudioContextRef, nextStartTimeRef,
                 sourcesRef, sessionRef, streamRef, scriptProcessorRef,
                 mediaSourceRef, transcriptionBufferRef, isSessionOpenRef,
                 pendingTextRef, rafRef, rafPending, capturedFramesRef,
                 lastFrameCaptureTimeRef, interviewContextRef, sock,
                 feedbackCalls, schedule, endedPending>>
  /\ UNCHANGED <<variant, caught, attemptVars, decoding, currentTime, preview>>
  /\ Quiet

(***************************************************************************)
(* Specifications.  Each explores every handler that touches the state its *)
(* claims are about and draws the inbound messages from the part of the    *)
(* protocol that state depends on.                                         *)
(***************************************************************************)
Connection ==
  \/ StartSession
  \/ \E a \in Attempts : MicrophoneGranted(a)
  \/ \E a \in Attempts : MicrophoneRefused(a, "NotAllowedError")
  \/ \E a \in Attempts : ConnectRejected(a, {})
  \/ \E a \in Attempts : OnOpen(a)
  \/ \E a \in Attempts : ConnectReturned(a)
  \/ \E a \in Attempts : OnError(a)
  \/ \E a \in Attempts : OnClose(a)
  \/ StopSession
  \/ DismissError

Review ==
  \/ \E i \in 1..MaxSessions * 2, outcome \in {"text", "fail"} :
       FeedbackSettled(i, outcome)
  \/ HandleNewInterview

(* one finished user turn *)
TurnMessage == [NoMsg EXCEPT !.input = <<"h">>, !.turnComplete = TRUE]

(***************************************************************************)
(* VideoPreview: the callbacks of the camera effect, and the unmount       *)
(***************************************************************************)
(* a callback of the preview leaves the App as it is; the preview renders  *)
(* again if it changed cameraState                                         *)
PreviewStep(op, p) ==
  /\ preview' = rendered(preview, p, isActive, isActive)
  /\ lastOp' = op
  /\ effects' = <<>>
  /\ UNCHANGED <<showSetupForm, apiKey, jobDescription, resumeContent,
                 isActive, isConnecting, isSpeaking,
                 transcriptions, error, realtimeText, endFeedback,
                 isGeneratingFeedback, outputAudioContextRef, nextStartTimeRef,
                 sourcesRef, sessionRef, streamRef, scriptProcessorRef,
                 mediaSourceRef, transcriptionBufferRef, isSessionOpenRef,
                 pendingTextRef, rafRef, rafPending, capturedFramesRef,
                 lastFrameCaptureTimeRef, interviewContextRef, sock,
                 feedbackCalls, schedule, endedPending>>
  /\ UNCHANGED <<variant, caught, attemptVars, decoding, clockVars>>
  /\ Quiet

CameraGranted ==
  /\ preview.pc = "requested"
  /\ PreviewStep("cameraGranted", cameraGranted(preview))

CameraRefused(name) ==
  /\ preview.pc = "requested"
  /\ PreviewStep("cameraRefused", cameraRefused(preview, name))

LoadedMetadata ==
  /\ preview.pc = "attached"
  /\ PreviewStep("onloadedmetadata", onloadedmetadata(preview))

PlayResolved ==
  /\ preview.pc = "playing"
  /\ PreviewStep("playResolved", playResolved(preview))

PlayRejected ==
  /\ preview.pc = "playing"
  /\ PreviewStep("playRejected", playRejected(preview))

Unmount ==
  /\ preview.mounted
  /\ PreviewStep("unmount", unmount(preview))


(* Session lifecycle of the current App: sessions, transcript entries,     *)
(* feedback calls, outbound sends; the clocks stand still                  *)
Next ==
  \/ \E k \in {<<>>, <<"k">>} : SetApiKey(k)
  \/ Connection
  \/ Review
  \/ \E a \in Attempts : OnMessage(a, TurnMessage)
  \/ AudioProcess
  \/ CaptureTick("f1")

Spec == Init /\ [][Next]_vars

(* The camera preview from its mount to its unmount, beside sessions that  *)
(* open, end and are stopped                                               *)
NextPreview ==
  \/ CameraGranted
  \/ \E name \in CameraErrors : CameraRefused(name)
  \/ LoadedMetadata
  \/ PlayResolved
  \/ PlayRejected
  \/ Unmount
  \/ SetApiKey(<<"k">>)
  \/ StartSession
  \/ \E a \in Attempts : MicrophoneGranted(a)
  \/ \E a \in Attempts : OnOpen(a)
  \/ \E a \in Attempts : ConnectReturned(a)
  \/ \E a \in Attempts : OnClose(a)
  \/ StopSession
  \/ CaptureTick("f1")

SpecPreview == InitPreview /\ [][NextPreview]_vars

(* Session lifecycle of the earlier App *)
SpecEarlier == InitEarlier /\ [][Connection \/ Review
                                 \/ \E a \in Attempts : OnMessage(a, TurnMessage)]_vars

(* Playback scheduler: audio and interrupted messages, the audio clock,    *)
(* sources ending, and every way a session is torn down                    *)
NextPlayback ==
  \/ SetApiKey(<<"k">>)
  \/ Connection
  \/ \E a \in Attempts, m \in AudioMessages : OnMessage(a, m)
  \/ \E i \in 1..MaxDecoding : DecodeDone(i)
  \/ \E src \in 1..MaxChunks : SourceEnded(src)
  \/ StoppedSourceEnded
  \/ Tick

SpecPlayback == Init /\ [][NextPlayback]_vars

(* Transcript assembler: partial text and turn-complete messages, the      *)
(* animation frame, and every way a session ends                           *)
NextTranscript ==
  \/ SetApiKey(<<"k">>)
  \/ Connection
  \/ \E a \in Attempts, m \in TextMessages : OnMessage(a, m)
  \/ AnimationFrame

SpecTranscript == Init /\ [][NextTranscript]_vars

(* Spoken turns: messages that carry audio data together with the text of  *)
(* what is said, text alone, or the end of the turn                        *)
SpokenMessages ==
  { [NoMsg EXCEPT !.audio = 3, !.output = <<"h">>],
    [NoMsg EXCEPT !.output = <<" ">>],
    [NoMsg EXCEPT !.turnComplete = TRUE] }

NextSpoken ==
  \/ SetApiKey(<<"k">>)
  \/ StartSession
  \/ \E a \in Attempts : MicrophoneGranted(a)
  \/ \E a \in Attempts : OnOpen(a)
  \/ \E a \in Attempts : ConnectReturned(a)
  \/ \E a \in Attempts : OnClose(a)
  \/ StopSession
  \/ \E a \in Attempts, m \in SpokenMessages : OnMessage(a, m)
  \/ \E i \in 1..MaxDecoding : DecodeDone(i)
  \/ AnimationFrame

SpecSpoken == Init /\ [][NextSpoken]_vars

(* Frame sampler: the capture tick of the camera preview and the wall      *)
(* clock, over sessions that open and are stopped or closed                *)
NextFrames ==
  \/ SetApiKey(<<"k">>)
  \/ StartSession
  \/ \E a \in Attempts : MicrophoneGranted(a)
  \/ \E a \in Attempts : OnOpen(a)
  \/ \E a \in Attempts : ConnectReturned(a)
  \/ \E a \in Attempts : OnClose(a)
  \/ StopSession
  \/ \E base64 \in Frames : CaptureTick(base64)
  \/ DateTick

SpecFrames == Init /\ [][NextFrames]_vars

(* Session start of the current App: every way getUserMedia and            *)
(* ai.live.connect can fail, and the sessions that do open                 *)
NextStart ==
  \/ \E k \in ApiKeys : SetApiKey(k)
  \/ StartSession
  \/ \E a \in Attempts : MicrophoneGranted(a)
  \/ \E a \in Attempts, name \in MicErrors : MicrophoneRefused(a, name)
  \/ \E a \in Attempts, message \in ConnectErrors : ConnectRejected(a, message)
  \/ \E a \in Attempts : OnOpen(a)
  \/ \E a \in Attempts : ConnectReturned(a)
  \/ \E a \in Attempts : OnError(a)
  \/ \E a \in Attempts : OnClose(a)
  \/ StopSession
  \/ DismissError

SpecStart == Init /\ [][NextStart]_vars

(* Playback over successive sessions of the earlier App, whose Start       *)
(* button is there as soon as a session has been stopped: sessions that    *)
(* open and are stopped or closed, audio messages, the audio clock         *)
NextEarlierPlayback ==
  \/ StartSession
  \/ \E a \in Attempts : MicrophoneGranted(a)
  \/ \E a \in Attempts : OnOpen(a)
  \/ \E a \in Attempts : ConnectReturned(a)
  \/ \E a \in Attempts : OnClose(a)
  \/ StopSession
  \/ \E a \in Attempts : OnMessage(a, [NoMsg EXCEPT !.audio = 3])
  \/ \E i \in 1..MaxDecoding : DecodeDone(i)
  \/ \E src \in 1..MaxChunks : SourceEnded(src)
  \/ Tick

SpecEarlierPlayback == InitEarlier /\ [][NextEarlierPlayback]_vars

(* Interview context: the fields of the setup form, sessions with one      *)
(* finished turn, and the feedback calls made when they end                *)
NextContext ==
  \/ SetApiKey(<<"k">>)
  \/ \E j \in FormTexts : SetJobDescription(j)
  \/ \E r \in FormTexts : SetResumeContent(r)
  \/ StartSession
  \/ \E a \in Attempts : MicrophoneGranted(a)
  \/ \E a \in Attempts : OnOpen(a)
  \/ \E a \in Attempts : ConnectReturned(a)
  \/ \E a \in Attempts : OnMessage(a, TurnMessage)
  \/ \E a \in Attempts : OnClose(a)
  \/ StopSession
  \/ Review

SpecContext == Init /\ [][NextContext]_vars

(* the same for the earlier App, which has the job description field only *)
NextEarlierContext ==
  \/ \E j \in FormTexts : SetJobDescription(j)
  \/ StartSession
  \/ \E a \in Attempts : MicrophoneGranted(a)
  \/ \E a \in Attempts : OnOpen(a)
  \/ \E a \in Attempts : ConnectReturned(a)
  \/ \E a \in Attempts : OnMessage(a, TurnMessage)
  \/ \E a \in Attempts : OnClose(a)
  \/ StopSession
  \/ Review

SpecEarlierContext == InitEarlier /\ [][NextEarlierContext]_vars

(* Session start of the earlier App *)
NextEarlierStart ==
  \/ StartSession
  \/ \E a \in Attempts : MicrophoneGranted(a)
  \/ \E a \in Attempts, name \in MicErrors : MicrophoneRefused(a, name)
  \/ \E a \in Attempts, message \in ConnectErrors : ConnectRejected(a, message)
  \/ \E a \in Attempts : OnOpen(a)
  \/ \E a \in Attempts : ConnectReturned(a)
  \/ StopSession
  \/ DismissError

SpecEarlierStart == InitEarlier /\ [][NextEarlierStart]_vars

(* Transcript over sessions: user text and the end of a turn, sessions     *)
(* ended by Stop, close and error, feedback, New Interview                 *)
TranscriptMessages ==
  { [NoMsg EXCEPT !.input = <<"h">>],
    [NoMsg EXCEPT !.turnComplete = TRUE] }

NextTranscriptLife ==
  \/ SetApiKey(<<"k">>)
  \/ StartSession
  \/ \E a \in Attempts : MicrophoneGranted(a)
  \/ \E a \in Attempts : OnOpen(a)
  \/ \E a \in Attempts : ConnectReturned(a)
  \/ \E a \in Attempts, m \in TranscriptMessages : OnMessage(a, m)
  \/ \E a \in Attempts : OnError(a)
  \/ \E a \in Attempts : OnClose(a)
  \/ StopSession
  \/ Review

SpecTranscriptLife == Init /\ [][NextTranscriptLife]_vars

(* Feedback request: a turn of both speakers, frames retained at          *)
(* different times, sessions ended by Stop, the calls settling             *)
BothSpoke ==
  [NoMsg EXCEPT !.input = <<"h">>, !.output = <<"h">>, !.turnComplete = TRUE]

NextBatch ==
  \/ SetApiKey(<<"k">>)
  \/ StartSession
  \/ \E a \in Attempts : MicrophoneGranted(a)
  \/ \E a \in Attempts : OnOpen(a)
  \/ \E a \in Attempts : ConnectReturned(a)
  \/ \E a \in Attempts : OnMessage(a, BothSpoke)
  \/ \E base64 \in Frames : CaptureTick(base64)
  \/ DateTick
  \/ StopSession
  \/ \E i \in 1..MaxSessions : FeedbackSettled(i, "text")

SpecBatch == Init /\ [][NextBatch]_vars

(* Accumulators across sessions: partial text of either role and the end   *)
(* of a turn, sessions that are stopped, feedback, New Interview           *)
AccumulatorMessages ==
  { [NoMsg EXCEPT !.input = <<"h">>],
    [NoMsg EXCEPT !.output = <<"h">>],
    [NoMsg EXCEPT !.turnComplete = TRUE] }

NextAccumulators ==
  \/ SetApiKey(<<"k">>)
  \/ StartSession
  \/ \E a \in Attempts : MicrophoneGranted(a)
  \/ \E a \in Attempts : OnOpen(a)
  \/ \E a \in Attempts : ConnectReturned(a)
  \/ \E a \in Attempts, m \in AccumulatorMessages : OnMessage(a, m)
  \/ StopSession
  \/ Review

SpecAccumulators == Init /\ [][NextAccumulators]_vars

(***************************************************************************)
(* Properties                                                              *)
(***************************************************************************)
Has(q, e) == \E i \in 1..Len(q) : q[i] = e

(* the place of the first e in q *)
Pos(q, e) == CHOOSE i \in 1..Len(q) : q[i] = e /\ \A j \in 1..(i - 1) : q[j] # e

(* the handlers that end a session, and those that tear one down *)
Ends == {"stopSession", "onclose", "onerror"}
Teardowns == Ends \cup {"startFailed"}

(***************************************************************************)
(* C1: whenever a session that has at least one finalized transcript entry *)
(* ends, by the End Session button, by onclose or by onerror, the step     *)
(* that ends it invokes generateFeedback with those entries, after the     *)
(* teardown steps                                                          *)
(***************************************************************************)
C1_FeedbackOnEverySessionEnd ==
  [][ (lastOp' \in Ends /\ isActive /\ transcriptions # <<>>) =>
        /\ Has(effects', "generateFeedback")
        /\ Pos(effects', "nextStartTime:=0") < Pos(effects', "generateFeedback")
        /\ Len(feedbackCalls') = Len(feedbackCalls) + 1
        /\ feedbackCalls'[Len(feedbackCalls')].transcript = transcriptions
    ]_vars

(***************************************************************************)
(* C2: at most one feedback synthesis is in flight per session: no two     *)
(* generateFeedback calls that await generateContent were made by stop,    *)
(* close and error events of the same session                              *)
(***************************************************************************)
C2_OneSynthesisInFlightPerSession ==
  \A i, j \in 1..Len(feedbackCalls) :
    i # j => feedbackCalls[i].session # feedbackCalls[j].session

(* the session state: everything but what belongs to the feedback          *)
(* synthesizer and the log of effects                                      *)
SessionState(s) ==
  [s EXCEPT !.feedbackCalls = <<>>, !.isGeneratingFeedback = FALSE,
            !.effects = <<>>]

Releases ==
  {"session.close", "scriptProcessor.disconnect", "mediaSource.disconnect",
   "track.stop", "source.stop"}

StopTranscripts == {<<>>, <<[role |-> "user", text |-> <<"h">>]>>}

(***************************************************************************)
(* C3: stopSession is idempotent and safe from any state.  In every        *)
(* reachable state (Idle, Connecting, Open, just stopped, inside onerror   *)
(* or onclose), with an empty and with a non-empty transcript: it touches  *)
(* only resources that are held, a second invocation releases nothing and *)
(* leaves the session state as the first invocation left it.               *)
(***************************************************************************)
C3_StopIdempotent ==
  \A T \in StopTranscripts :
    LET once == stopSession(S, T, jobDescription)
        twice == stopSession([once EXCEPT !.effects = <<>>], T, jobDescription)
    IN  /\ Has(once.effects, "session.close") => sessionRef # NULL
        /\ Has(once.effects, "scriptProcessor.disconnect") => scriptProcessorRef # NULL
        /\ Has(once.effects, "mediaSource.disconnect") => mediaSourceRef # NULL
        /\ Has(once.effects, "track.stop") => streamRef # NULL
        /\ Has(once.effects, "source.stop") => sourcesRef # {}
        /\ \A e \in Releases : ~Has(twice.effects, e)
        /\ SessionState(twice) = SessionState(once)
        /\ ~once.isActive /\ ~once.isConnecting /\ ~once.isSessionOpenRef

(* onclose runs stopSession again after the End Session button has run it: *)
(* nothing is left to release                                              *)
C3_Witness ==
  /\ lastOp = "onclose"
  /\ effects = <<"isSessionOpen:=false", "isSessionOpen:=false",
                 "sources.clear", "nextStartTime:=0">>
  /\ \E a \in Attempts : sock[a] = "closed" /\ pc[a] = "done"

(***************************************************************************)
(* C4: the controller only moves Idle -> Connecting -> Open -> Idle, with  *)
(* the error path from Connecting or Open to Idle: isActive becomes true   *)
(* only in onopen and while isConnecting is true, isActive and             *)
(* isConnecting are never both true, and every stop, close and error       *)
(* leaves both false                                                       *)
(***************************************************************************)
C4_ControllerStates ==
  [][ /\ (~isActive /\ isActive') => (lastOp' = "onopen" /\ isConnecting)
      /\ ~(isActive' /\ isConnecting')
      /\ lastOp' \in Ends => (~isActive' /\ ~isConnecting')
    ]_vars

TeardownOrder ==
  <<"isSessionOpen:=false", "scriptProcessor.disconnect",
    "mediaSource.disconnect", "track.stop", "source.stop", "sources.clear",
    "nextStartTime:=0">>

Ordered(q) ==
  \A i, j \in 1..Len(TeardownOrder) :
    (i < j /\ Has(q, TeardownOrder[i]) /\ Has(q, TeardownOrder[j]))
      => Pos(q, TeardownOrder[i]) < Pos(q, TeardownOrder[j])

CleanupDone(q) ==
  /\ Ordered(q)
  /\ Has(q, "isSessionOpen:=false")
  /\ Has(q, "sources.clear")
  /\ Has(q, "nextStartTime:=0")
  /\ ~Has(q, "sendRealtimeInput")

(***************************************************************************)
(* C6: teardown order.  As claimed: the open flag is cleared first, then   *)
(* the audio nodes are disconnected, then the microphone stream is         *)
(* stopped, then the playback sources are stopped and the set cleared,     *)
(* then the cursor is reset; and the close request of stopSession is not   *)
(* made while the flag is still true                                       *)
(***************************************************************************)
C6_TeardownOrderAsClaimed ==
  [][ lastOp' \in Teardowns =>
        /\ CleanupDone(effects')
        /\ (Has(effects', "session.close") /\ isSessionOpenRef)
             => Pos(effects', "isSessionOpen:=false") < Pos(effects', "session.close")
    ]_vars

(* C6 as the code has it: the steps of cleanup run in the claimed order    *)
(* and no audio chunk or frame is sent during a teardown; the End Session  *)
(* button makes its close request first, before cleanup clears the flag,   *)
(* while onclose and onerror clear the flag before anything else           *)
C6_TeardownOrder ==
  [][ lastOp' \in Teardowns =>
        /\ CleanupDone(effects')
        /\ Has(effects', "session.close") =>
             \A k \in 2..Len(TeardownOrder) :
               Has(effects', TeardownOrder[k]) =>
                 Pos(effects', "session.close") < Pos(effects', TeardownOrder[k])
        /\ lastOp' \in {"onclose", "onerror"} => effects'[1] = "isSessionOpen:=false"
        /\ lastOp' = "stopSession" =>
             (Has(effects', "session.close") => effects'[1] = "session.close")
    ]_vars

(* the End Session button while two sources are in the set: every step of  *)
(* the teardown is taken                                                   *)
C6_Witness ==
  /\ lastOp = "stopSession"
  /\ effects = <<"session.close", "isSessionOpen:=false",
                 "scriptProcessor.disconnect", "mediaSource.disconnect",
                 "track.stop", "source.stop", "sources.clear",
                 "nextStartTime:=0">>
  /\ endedPending = 2

C8_InterruptClears ==
  [][ Has(effects', "interrupted") =>
        (sourcesRef' = {} /\ nextStartTimeRef' = 0 /\ ~isSpeaking')
    ]_vars

(* chunks of 2.0 s and 1.5 s were enqueued and the interrupt arrived while *)
(* the second was playing                                                  *)
C8_Witness ==
  /\ Has(effects, "interrupted")
  /\ lastOp = "onmessage"
  /\ endedPending = 1
  /\ currentTime > 4
  /\ sourcesRef = {} /\ nextStartTimeRef = 0 /\ ~isSpeaking

(***************************************************************************)
(* C9: in every reachable state isSpeaking is true if and only if the set  *)
(* of playback sources is non-empty                                        *)
(***************************************************************************)
C9_SpeakingIffSources == isSpeaking <=> sourcesRef # {}

(***************************************************************************)
(* C10: a turn-complete appends at most one user entry and at most one     *)
(* model entry, the user entry first, changes no earlier entry, and leaves *)
(* both accumulators and the pending interim buffer empty                  *)
(***************************************************************************)
C10_TurnComplete ==
  [][ Has(effects', "turnComplete") =>
        LET n == Len(transcriptions)
            added == SubSeq(transcriptions', n + 1, Len(transcriptions'))
        IN  /\ Len(transcriptions') >= n
            /\ SubSeq(transcriptions', 1, n) = transcriptions
            /\ Cardinality({i \in 1..Len(added) : added[i].role = "user"}) <= 1
            /\ Cardinality({i \in 1..Len(added) : added[i].role = "model"}) <= 1
            /\ \A i, j \in 1..Len(added) :
                 (added[i].role = "user" /\ added[j].role = "model") => i < j
            /\ \A i \in 1..Len(added) : added[i].role \in {"user", "model"}
            /\ transcriptionBufferRef' = EmptyText
            /\ pendingTextRef' = EmptyText
    ]_vars

(* a turn-complete that appended a user entry and a model entry *)
C10_Witness ==
  /\ Has(effects, "setTranscriptions(user,model)")
  /\ Len(transcriptions) = 2
  /\ transcriptions[1].role = "user"
  /\ transcriptions[2].role = "model"
  /\ transcriptionBufferRef = EmptyText

(* text with a character that is not white space *)
NonBlank(x) == \E i \in 1..Len(x) : x[i] # " "

(* y is x without the white space at its ends *)
IsTrimOf(y, x) ==
  /\ y # <<>> /\ y[1] # " " /\ y[Len(y)] # " "
  /\ \E i \in 0..Len(x) :
       /\ i + Len(y) <= Len(x)
       /\ SubSeq(x, i + 1, i + Len(y)) = y
       /\ \A j \in (1..i) \cup ((i + Len(y) + 1)..Len(x)) : x[j] = " "

EntriesOfRole(q, r) == {i \in 1..Len(q) : q[i].role = r}

(***************************************************************************)
(* C11: on turn-complete a user entry is emitted if and only if the user   *)
(* accumulator holds more than white space, a model entry if and only if   *)
(* the model accumulator does, the text of an entry is the accumulator     *)
(* without the white space at its ends, and no entry of the transcript has *)
(* empty text: in every reachable state, for the turn-complete block run   *)
(* on the accumulators of that state                                       *)
(***************************************************************************)
C11_EntryIffNonBlank ==
  LET s == turnComplete(S)
      n == Len(transcriptions)
      added == SubSeq(s.transcriptions, n + 1, Len(s.transcriptions))
  IN  /\ SubSeq(s.transcriptions, 1, n) = transcriptions
      /\ \A r \in {"user", "model"} :
           /\ EntriesOfRole(added, r) # {} <=> NonBlank(transcriptionBufferRef[r])
           /\ \A i \in EntriesOfRole(added, r) :
                IsTrimOf(added[i].text, transcriptionBufferRef[r])
      /\ \A i \in 1..Len(transcriptions) : transcriptions[i].text # <<>>

(* a turn with only user text gave exactly one user entry, and a later     *)
(* turn-complete has left the transcript as it was                         *)
C11_Witness ==
  /\ transcriptions = <<[role |-> "user", text |-> <<"h">>]>>
  /\ lastOp = "onmessage"
  /\ effects = <<"turnComplete">>

(* the entries the step appended to the transcript *)
Added == SubSeq(transcriptions', Len(transcriptions) + 1, Len(transcriptions'))

(***************************************************************************)
(* C12: the entry a turn-complete appends for a role has as its text the   *)
(* concatenation, in arrival order, of every partial text received for     *)
(* that role since the previous turn-complete (that of the completing      *)
(* message included), without the white space at its ends, whether or not  *)
(* animation-frame redraws ran, were coalesced or were cancelled in        *)
(* between; and there is such an entry whenever that concatenation is not  *)
(* blank                                                                   *)
(***************************************************************************)
C12_EntryIsArrivedText ==
  [][Has(effects', "turnComplete") =>
       \A r \in {"user", "model"} :
         /\ EntriesOfRole(Added, r) # {} <=> NonBlank(completed'[r])
         /\ \A i \in EntriesOfRole(Added, r) :
              IsTrimOf(Added[i].text, completed'[r])]_vars

(* handleFrame retained the frame it was given *)
Retains ==
  /\ lastOp' = "handleFrame"
  /\ lastFrameCaptureTimeRef' # lastFrameCaptureTimeRef

(***************************************************************************)
(* C13: capturedFramesRef never holds more than MAX_FRAMES_FOR_FEEDBACK    *)
(* (12) frames, and every retention puts the frame at the end and, when    *)
(* the buffer is full, removes the frame at the front: the buffer holds    *)
(* the 12 frames retained last, in the order they were retained            *)
(***************************************************************************)
C13_FrameBuffer ==
  [][/\ Len(capturedFramesRef') <= MAX_FRAMES_FOR_FEEDBACK
     /\ Retains =>
          LET n == Len(capturedFramesRef')
              kept == IF Len(capturedFramesRef) = MAX_FRAMES_FOR_FEEDBACK
                        THEN Tail(capturedFramesRef)
                        ELSE capturedFramesRef
          IN  /\ n = Len(kept) + 1
              /\ SubSeq(capturedFramesRef', 1, n - 1) = kept
              /\ capturedFramesRef'[n] \in Frames
     /\ (lastOp' = "handleFrame" /\ ~Retains) =>
          capturedFramesRef' = capturedFramesRef]_vars

(* the thirteenth frame of a session has been retained, its first evicted *)
C13_Witness ==
  /\ Len(capturedFramesRef) = MAX_FRAMES_FOR_FEEDBACK
  /\ lastOp = "handleFrame"
  /\ lastFrameCaptureTimeRef >= Epoch + MAX_FRAMES_FOR_FEEDBACK * FRAME_CAPTURE_INTERVAL
  /\ capturedFramesRef[1] # capturedFramesRef[2]

(***************************************************************************)
(* C14: a handler that ends a session while the transcript is empty does   *)
(* not call generateFeedback; a generateFeedback that is called with an    *)
(* empty transcript or without an API key issues no generateContent        *)
(* request, and leaves endFeedback and isGeneratingFeedback as they were;  *)
(* every request issued carries a non-empty transcript and a key           *)
(***************************************************************************)
C14_NoFeedbackOnEmpty ==
  [][/\ (lastOp' \in Ends /\ transcriptions = <<>>) =>
          ~Has(effects', "generateFeedback")
     /\ (Has(effects', "generateFeedback") /\ ~Has(effects', "generateContent")) =>
          /\ feedbackCalls' = feedbackCalls
          /\ endFeedback' = endFeedback
          /\ isGeneratingFeedback' = isGeneratingFeedback
     /\ Has(effects', "generateContent") =>
          /\ Len(feedbackCalls') = Len(feedbackCalls) + 1
          /\ feedbackCalls'[Len(feedbackCalls')].transcript # <<>>
          /\ feedbackCalls'[Len(feedbackCalls')].key # <<>>]_vars

(***************************************************************************)
(* C15: when startSession runs with an API key that is empty or only white *)
(* space, isConnecting and isActive stay false, an error is set, and the   *)
(* handler neither asks for the microphone nor begins a connection attempt *)
(***************************************************************************)
C15_MissingKey ==
  [][(lastOp' = "startSession" /\ trim(apiKey) = <<>>) =>
       /\ ~isConnecting' /\ ~isActive'
       /\ error' # None
       /\ ~Has(effects', "getUserMedia")
       /\ nAttempts' = nAttempts /\ pc' = pc /\ sock' = sock]_vars

StartErrors == {"mic-denied", "mic-not-found", "invalid-key", "quota",
                "model-unavailable", "unknown"}

(***************************************************************************)
(* C16: when getUserMedia or ai.live.connect fails, the catch block of     *)
(* startSession leaves the App idle (isConnecting and isActive false) with *)
(* the setup form shown, the microphone stream stopped and released, one   *)
(* error message set, and starts no new attempt                            *)
(***************************************************************************)
C16_StartFailureTerminal ==
  [][lastOp' = "startFailed" =>
       /\ ~isConnecting' /\ ~isActive'
       /\ showSetupForm'
       /\ streamRef' = NULL
       /\ streamRef # NULL => Has(effects', "track.stop")
       /\ error' \in StartErrors
       /\ ~Has(effects', "getUserMedia") /\ ~Has(effects', "live.connect")
       /\ nAttempts' = nAttempts
       /\ \A a \in Attempts : pc'[a] \notin {"mic", "connect"}]_vars

(* the connection was refused for its quota after the microphone had been  *)
(* granted: the stream is released and the form is back                    *)
C16_Witness ==
  /\ lastOp = "startFailed"
  /\ error = "quota"
  /\ Has(effects, "track.stop")
  /\ streamRef = NULL
  /\ showSetupForm /\ ~isConnecting /\ ~isActive

TornDown ==
  /\ ~isSessionOpenRef
  /\ streamRef = NULL
  /\ sourcesRef = {}
  /\ ~isActive

(***************************************************************************)
(* C17: whenever an error is set, the open flag is false, the microphone   *)
(* stream is released, no playback source is active and isActive is false; *)
(* and the Dismiss button changes the error and nothing else               *)
(***************************************************************************)
C17_ErrorAfterTeardown ==
  [][/\ error' # None => TornDown'
     /\ lastOp' = "dismissError" =>
          /\ error' = None
          /\ [S EXCEPT !.error = None, !.effects = <<>>]
               = [S' EXCEPT !.effects = <<>>]]_vars

(***************************************************************************)
(* C18: when a generateContent call resolves or rejects, the continuation  *)
(* of generateFeedback sets isGeneratingFeedback false and changes nothing *)
(* else but endFeedback: the session error and the session state are left  *)
(* alone; and when the call rejected, endFeedback is the one fixed failure *)
(* message                                                                 *)
(***************************************************************************)
C18_FeedbackFailureCaught ==
  [][lastOp' = "feedbackSettled" =>
       /\ ~isGeneratingFeedback'
       /\ error' = error
       /\ endFeedback' # None
       /\ Has(effects', "catch") => endFeedback' = "Failed to generate feedback"
       /\ [S' EXCEPT !.effects = <<>>, !.feedbackCalls = <<>>]
            = [S EXCEPT !.effects = <<>>, !.feedbackCalls = <<>>,
                        !.endFeedback = endFeedback',
                        !.isGeneratingFeedback = FALSE]]_vars

(* a call has rejected: the failure message is the feedback text, no       *)
(* session error is set                                                    *)
C18_Witness ==
  /\ lastOp = "feedbackSettled"
  /\ Has(effects, "catch")
  /\ endFeedback = "Failed to generate feedback"
  /\ ~isGeneratingFeedback
  /\ error = None

(* the messages of a send that found the connection closed or closing *)
ClosedErrors == {e \in SendErrors : includesCLOS(e) \/ includesNotOpen(e)}

(***************************************************************************)
(* C19: when sendRealtimeInput throws in onaudioprocess or in handleFrame  *)
(* because the connection is no longer open, the callback ends normally    *)
(* with isSessionOpenRef false and the error unchanged                     *)
(***************************************************************************)
C19_SendFailureSwallowed ==
  [][(/\ lastOp' \in {"onaudioprocess", "handleFrame"}
      /\ \E e \in ClosedErrors : Has(effects', e)) =>
       /\ ~isSessionOpenRef'
       /\ error' = error]_vars

(* nothing of an earlier attempt is held: no stream, no audio nodes, no    *)
(* session handle, no playback source, and no connection that is being     *)
(* opened or is open                                                       *)
NothingHeld ==
  /\ streamRef = NULL /\ scriptProcessorRef = NULL /\ mediaSourceRef = NULL
  /\ sessionRef = NULL /\ ~isSessionOpenRef
  /\ sourcesRef = {}
  /\ \A a \in Attempts :
       /\ pc[a] # "mic"
       /\ sock[a] \notin {"connecting", "open"}

(***************************************************************************)
(* C20: startSession asks for the microphone only when nothing of an       *)
(* earlier attempt is held: no attempt waits for the microphone or for its *)
(* connection to open, no connection is open, and the stream, the audio    *)
(* nodes, the session handle and the playback sources have been released;  *)
(* and ai.live.connect is called only when no other connection is being    *)
(* opened or is open                                                       *)
(***************************************************************************)
C20_ExclusiveOwnership ==
  [][/\ (lastOp' = "startSession" /\ Has(effects', "getUserMedia")) => NothingHeld
     /\ lastOp' = "microphoneGranted" =>
          \A a \in Attempts : sock[a] \notin {"connecting", "open"}]_vars

(* the feedback call the step issued *)
Issued == feedbackCalls'[Len(feedbackCalls')]

(***************************************************************************)
(* C21: the job description, the resume and the API key of every feedback  *)
(* request issued when a session ends are those the form held when that    *)
(* session was started, whatever was typed into the fields afterwards      *)
(***************************************************************************)
C21_ContextSnapshot ==
  [][Has(effects', "generateContent") =>
       /\ Issued.jd = startedWith[nAttempts].jd
       /\ Issued.resume = startedWith[nAttempts].resume
       /\ Issued.key = IF variant = "earlier"
                         THEN startedWith[nAttempts].apiKey
                         ELSE trim(startedWith[nAttempts].apiKey)]_vars


(* the handlers that run stopSession: the End Session button and the       *)
(* onerror and onclose callbacks                                           *)
Stops == {"stopSession", "onerror", "onclose"}

(* C22: the feedback call issued at session end carries the retained-frame *)
(* buffer as it was when stopSession was invoked; the buffer is empty when *)
(* stopSession has run; the settling of a feedback call changes neither    *)
(* the buffer nor the transcript list, and no step other than its own      *)
(* settling changes a call in flight                                       *)
C22_FrameSnapshot ==
  [][/\ Has(effects', "generateContent") => Issued.frames = capturedFramesRef
     /\ lastOp' \in Stops => capturedFramesRef' = <<>>
     /\ lastOp' = "feedbackSettled" =>
          /\ capturedFramesRef' = capturedFramesRef
          /\ transcriptions' = transcriptions
     /\ lastOp' # "feedbackSettled" =>
          SubSeq(feedbackCalls', 1, Len(feedbackCalls)) = feedbackCalls]_vars

(* a session was stopped with a frame retained, and the call went out *)
(* with it                                                             *)
C22_Witness ==
  /\ lastOp = "stopSession"
  /\ Has(effects, "generateContent")
  /\ feedbackCalls # <<>>
  /\ feedbackCalls[Len(feedbackCalls)].frames # <<>>
  /\ capturedFramesRef = <<>>


(* C23: a playback source is started at the larger of the cursor and the   *)
(* audio clock as they are when source.start is called, so never at a time *)
(* before the clock, whatever was handled while its decode was pending     *)
C23_StartNotInPast ==
  [][Has(effects', "source.start") /\ schedule' # <<>> =>
       /\ schedule'[Len(schedule')].start = Max(nextStartTimeRef, currentTime)
       /\ schedule'[Len(schedule')].start >= currentTime]_vars


(* handleFrame put the frame it was given into capturedFramesRef *)
Retained ==
  /\ lastOp' = "handleFrame"
  /\ \/ capturedFramesRef' # capturedFramesRef
     \/ lastFrameCaptureTimeRef' # lastFrameCaptureTimeRef

C25_AccumulatorsPerSession ==
  [][lastOp' = "onopen" =>
       /\ transcriptionBufferRef' = EmptyText
       /\ pendingTextRef' = EmptyText]_vars


(* the classes of lines 569-592 in the order the catch block tries them,   *)
(* and whether an error belongs to the class                               *)
ClassOrder == <<"mic-denied", "mic-not-found", "invalid-key", "quota",
                "model-unavailable", "unknown">>

Matches(class, e) ==
  CASE class = "mic-denied" -> e.name = "NotAllowedError"
    [] class = "mic-not-found" -> e.name = "NotFoundError"
    [] class = "invalid-key" ->
         e.message \cap {"API_KEY_INVALID", "API key not valid",
                         "invalid api key", "401", "403", "PERMISSION_DENIED",
                         "UNAUTHENTICATED"} # {}
    [] class = "quota" -> e.message \cap {"quota", "RESOURCE_EXHAUSTED"} # {}
    [] class = "model-unavailable" -> e.message \cap {"not found", "NOT_FOUND"} # {}
    [] class = "unknown" -> TRUE

FirstClass(e) ==
  ClassOrder[CHOOSE i \in 1..Len(ClassOrder) :
               /\ Matches(ClassOrder[i], e)
               /\ \A j \in 1..(i - 1) : ~Matches(ClassOrder[j], e)]

(* C26: the catch block of startSession shows, for every error it catches, *)
(* the message of the first class the error belongs to, in the order       *)
(* permission denied, device not found (by error name), invalid            *)
(* credential, quota exceeded, model unavailable, unknown (by the error's  *)
(* message)                                                                *)
C26_ClassificationPrecedence ==
  lastOp = "startFailed" => error = FirstClass(caught)


(* C27: never more than one animation-frame callback is pending; a handler *)
(* that handles a turn-complete leaves none pending and the interim text   *)
(* of both roles empty; interim text appears only when an animation-frame  *)
(* callback runs, and a callback is requested only by a handler that took  *)
(* partial text, so that the interim text stays empty from a turn-complete *)
(* to the next partial text                                                *)
C27_InterimDisplay ==
  [][/\ rafPending' <= 1
     /\ Has(effects', "turnComplete") =>
          /\ rafPending' = 0
          /\ realtimeText' = EmptyText
     /\ (realtimeText' # realtimeText /\ realtimeText' # EmptyText) =>
          lastOp' = "animationFrame"
     /\ rafPending' > rafPending =>
          \E r \in {"user", "model"} :
            Len(pendingTextRef'[r]) > Len(pendingTextRef[r])]_vars

(* a turn with user text was completed: nothing is pending and the interim *)
(* text is gone                                                            *)
C27_Witness ==
  /\ lastOp = "onmessage"
  /\ Has(effects, "turnComplete")
  /\ completed.user # <<>>
  /\ transcriptions # <<>>
  /\ realtimeText = EmptyText
  /\ rafPending = 0


(* q is p with entries added at its end *)
Extends(q, p) == Len(q) > Len(p) /\ SubSeq(q, 1, Len(p)) = p

(* C28: the transcript changes only in two ways: a handler that handles a  *)
(* turn-complete adds entries at its end and leaves the entries before     *)
(* them as they were, and New Interview empties it; partial text, stop,    *)
(* close and error leave it as it is                                       *)
C28_TranscriptAppendOnly ==
  [][transcriptions' # transcriptions =>
       \/ /\ Has(effects', "turnComplete")
          /\ Extends(transcriptions', transcriptions)
       \/ /\ lastOp' = "handleNewInterview"
          /\ transcriptions' = <<>>]_vars

(* New Interview has emptied the transcript of the first session, which   *)
(* was stopped in the middle of a turn                                     *)
C28_Witness ==
  /\ lastOp = "handleNewInterview"
  /\ transcriptions = <<>>
  /\ feedbackCalls = <<>>
  /\ endFeedback = None
  /\ nAttempts = 1
  /\ pendingTextRef.user # <<>>


(* the parts of q that are inlineData objects, in the order of q *)
RECURSIVE Images(_)
Images(q) ==
  IF q = <<>> THEN <<>>
  ELSE (IF Head(q).kind = "inlineData" THEN <<Head(q)>> ELSE <<>>)
       \o Images(Tail(q))

(* the first part of a request: the prompt with the transcript, every      *)
(* entry in its place under the label of its speaker                       *)
PromptPartOf(call) ==
  /\ call.contents[1].kind = "text"
  /\ call.contents[1].head = "prompt"
  /\ Len(call.contents[1].lines) = Len(call.transcript)
  /\ \A i \in 1..Len(call.transcript) :
       /\ call.contents[1].lines[i].text = call.transcript[i].text
       /\ call.contents[1].lines[i].speaker =
            IF call.transcript[i].role = "user" THEN "Candidate"
            ELSE "Interviewer"

(* the inlineData parts of a request are its frames, each once, in capture *)
(* order, as image/jpeg                                                    *)
FramesOnceInOrder(call) ==
  LET imgs == Images(call.contents)
  IN  /\ Len(imgs) = Len(call.frames)
      /\ \A i \in 1..Len(imgs) :
           imgs[i].data = call.frames[i] /\ imgs[i].mimeType = "image/jpeg"

(* the statement as given: after the prompt part come the frames and       *)
(* nothing else, or one placeholder text part when there is no frame       *)
C29_TextThenFramesOnly ==
  \A c \in 1..Len(feedbackCalls) :
    LET call == feedbackCalls[c]
        n == Len(call.frames)
    IN  /\ PromptPartOf(call)
        /\ FramesOnceInOrder(call)
        /\ Len(call.contents) = IF n = 0 THEN 2 ELSE 1 + n
        /\ n = 0 => call.contents[2].kind = "text"

(* C29: a feedback request is one list of parts; its first part is the     *)
(* prompt with the transcript in transcript order under speaker labels;    *)
(* its inlineData parts are the retained frames, each once, in capture     *)
(* order, as image/jpeg; after every frame but the last comes a text part  *)
(* with the frame's number; with no frame the second and last part is a    *)
(* placeholder text                                                        *)
C29_TextThenLabelledFrames ==
  \A c \in 1..Len(feedbackCalls) :
    LET call == feedbackCalls[c]
        n == Len(call.frames)
    IN  /\ PromptPartOf(call)
        /\ FramesOnceInOrder(call)
        /\ Len(call.contents) = IF n = 0 THEN 2 ELSE 2 * n
        /\ n = 0 => /\ call.contents[2].kind = "text"
                    /\ call.contents[2].head = "[No video frames]"
        /\ \A i \in 1..n :
             /\ call.contents[2 * i].kind = "inlineData"
             /\ i < n => /\ call.contents[2 * i + 1].kind = "text"
                         /\ call.contents[2 * i + 1].head = "[Frame]"
                         /\ call.contents[2 * i + 1].n = i

(* a request with both speakers in the transcript and two different frames *)
C29_Witness ==
  /\ feedbackCalls # <<>>
  /\ Len(feedbackCalls[1].transcript) = 2
  /\ feedbackCalls[1].frames = <<"f1", "f2">>
  /\ Len(feedbackCalls[1].contents) = 4


(* how often e occurs in q *)
Times(q, e) == Cardinality({i \in 1..Len(q) : q[i] = e})

(* C30: the script processor that feeds the outbound audio callback is     *)
(* created and connected in onopen and nowhere else; a chunk is sent only  *)
(* on a session whose onopen has run, by the callback that was given the   *)
(* chunk and in that callback, once: sends follow the order of capture     *)
C30_AudioWiredAtOpen ==
  [][/\ (scriptProcessorRef' # NULL /\ scriptProcessorRef' # scriptProcessorRef) =>
          /\ lastOp' = "onopen"
          /\ sock'[scriptProcessorRef'] = "open"
     /\ (lastOp' = "onaudioprocess" /\ Has(effects', "sendRealtimeInput")) =>
          /\ scriptProcessorRef # NULL
          /\ sessionRef # NULL
          /\ pc[sessionRef] = "done"
          /\ sock[sessionRef] # "connecting"
          /\ Times(effects', "sendRealtimeInput") = 1
     /\ (lastOp' # "onaudioprocess" /\ lastOp' # "handleFrame") =>
          ~Has(effects', "sendRealtimeInput")]_vars

(* a chunk was sent on the open session *)
C30_Witness ==
  /\ lastOp = "onaudioprocess"
  /\ effects = <<"sendRealtimeInput">>
  /\ isActive /\ isSessionOpenRef
  /\ sessionRef # NULL
  /\ sock[sessionRef] = "open"


(* no session is running and none is being set up *)
Idle == ~isActive /\ ~isConnecting

(* C31: while the system is idle no playback source is started, the set of *)
(* live sources is empty and the cursor is 0, also when the decode of an   *)
(* audio message resolves after the session was torn down                  *)
C31_NoPlaybackWhenIdle ==
  [][Idle =>
       /\ ~Has(effects', "source.start")
       /\ Idle' => sourcesRef' = {} /\ nextStartTimeRef' = 0]_vars


(* C32: a handleMessage run that is not made while the session is open     *)
(* changes neither the transcript nor the accumulators nor the interim     *)
(* text                                                                    *)
C32_MessagesOnlyWhileOpen ==
  [][(lastOp' \in {"onmessage", "decodeDone"} /\ ~(isActive /\ isSessionOpenRef)) =>
       /\ transcriptions' = transcriptions
       /\ transcriptionBufferRef' = transcriptionBufferRef
       /\ pendingTextRef' = pendingTextRef
       /\ realtimeText' = realtimeText]_vars


(* C33: whenever the system is idle, sessionRef holds no session and every *)
(* connection that was opened has been asked to close or has closed        *)
C33_IdleHoldsNoSession ==
  Idle =>
    /\ sessionRef = NULL
    /\ \A a \in Attempts : sock[a] # "open"


(* C34: whenever the system is idle and no feedback is being generated,    *)
(* the start control is on screen or the New Interview button is           *)
C34_WayBackToStart ==
  (Idle /\ ~isGeneratingFeedback) => (StartShown \/ endFeedback # None)


(* C35: the transcript is empty whenever startSession starts a session, so *)
(* the transcript handed to generateFeedback holds entries of the session  *)
(* that just ended only                                                    *)
C35_TranscriptEmptyAtStart ==
  [][(lastOp' = "startSession" /\ isConnecting') => transcriptions = <<>>]_vars


(* C36: isGeneratingFeedback is true exactly while a generateContent       *)
(* request is awaited; when no request is awaited and one was made, the    *)
(* flag is false and the feedback text is set and not empty                *)
C36_GeneratingFlag ==
  /\ isGeneratingFeedback <=> feedbackCalls # <<>>
  /\ (lastOp = "feedbackSettled" /\ feedbackCalls = <<>>) =>
       /\ ~isGeneratingFeedback
       /\ endFeedback # None


(* the send of the frame threw in the handler that has just run *)
SendThrew(q) == \E e \in SendErrors : Has(q, e)

(* C37: a frame is retained only when its send did not throw: when         *)
(* sendRealtimeInput throws, handleFrame leaves the frame buffer and the    *)
(* time of the last retention as they were                                 *)
C37_FailedSendNotRetained ==
  [][lastOp' = "handleFrame" =>
       /\ SendThrew(effects') =>
            /\ capturedFramesRef' = capturedFramesRef
            /\ lastFrameCaptureTimeRef' = lastFrameCaptureTimeRef
       /\ (\/ capturedFramesRef' # capturedFramesRef
           \/ lastFrameCaptureTimeRef' # lastFrameCaptureTimeRef) =>
            /\ Has(effects', "sendRealtimeInput")
            /\ ~SendThrew(effects')]_vars

(* a send threw for a frame that was due to be retained *)
C37_Witness ==
  /\ lastOp = "handleFrame"
  /\ SendThrew(effects)
  /\ Epoch + dateNow - lastFrameCaptureTimeRef >= FRAME_CAPTURE_INTERVAL


(* C38: the camera is not left running by an unmounted preview: in every   *)
(* state in which the preview is unmounted the tracks of its stream are    *)
(* not live; the unmount stops the tracks it holds; a stream that arrives  *)
(* after the unmount is stopped in the callback that receives it and is    *)
(* put neither on the video element nor in streamRef                       *)
C38_CameraReleased ==
  [][/\ ~preview'.mounted => preview'.tracks # "live"
     /\ lastOp' = "unmount" =>
          /\ preview'.tracks # "live"
          /\ preview'.streamRef = NULL
     /\ (lastOp' = "cameraGranted" /\ ~preview.mounted) =>
          /\ preview'.tracks = "stopped"
          /\ preview'.streamRef = NULL
          /\ ~preview'.srcObject]_vars

(* the camera was granted after the unmount *)
C38_Witness ==
  /\ lastOp = "cameraGranted"
  /\ ~preview.mounted
  /\ preview.tracks = "stopped"

(* C39: capture timers exist only while isActive is true and the camera is *)
(* ready, and never more than one; a change of isActive or of cameraState  *)
(* clears the timer there was; the frame callback runs only in a state     *)
(* where isActive is true and the camera is ready                          *)
C39_OneCaptureInterval ==
  [][/\ preview'.intervals <= 1
     /\ preview'.intervals > 0 =>
          /\ isActive'
          /\ preview'.cameraState = "ready"
          /\ preview'.mounted
     /\ (isActive' # isActive \/ preview'.cameraState # preview.cameraState) =>
          preview'.intervals = IF /\ preview'.mounted
                                  /\ isActive'
                                  /\ preview'.cameraState = "ready"
                                 THEN 1 ELSE 0
     /\ lastOp' = "handleFrame" =>
          /\ isActive
          /\ preview.cameraState = "ready"]_vars

(* End Session has been pressed with the camera ready, and the timer of    *)
(* the session is gone                                                     *)
C39_Witness ==
  /\ lastOp = "stopSession"
  /\ ~isActive
  /\ preview.mounted
  /\ preview.cameraState = "ready"
  /\ preview.intervals = 0

=============================================================================
